---- MODULE Spec2Model ----
(***************************************************************************)
(* The Peer Manager actor of libsplinter (src/libsplinter/src/peer/mod.rs) *)
(* as a state machine: one action per message the actor thread handles.    *)
(* The handlers are operators from an actor state to the next actor state, *)
(* so that one node (variable actor) and a pair of nodes (variable pair)   *)
(* run the same code.                                                      *)
(***************************************************************************)
EXTENDS Integers, Sequences, FiniteSets, TLC

VARIABLES
    actor,      \* the state owned by the actor thread (maps and last outputs)
    conns,      \* the Connection Manager's table of connections
    prefs,      \* outstanding PeerRef handles, per peer key
    erefs,      \* outstanding EndpointPeerRef handles, per (endpoint, id)
    nextId,     \* source of fresh connection ids (Uuid::new_v4)
    now,        \* the monotonic clock (Instant::now), in seconds
    msgs,       \* messages the actor has taken from its channel
    msg,        \* the message the actor handled last
    pair,       \* two actors dialing each other, and what each has handled
    thread      \* the actor's channel and thread, when the run models them

vars == <<actor, conns, prefs, erefs, nextId, now, msgs, msg, pair, thread>>

----------------------------------------------------------------------------
(* Bounds of the model *)

MaxMsgs == 5        \* messages the actor handles in a run, two local tokens
MaxMsgsTrust == 3   \* messages the actor handles in a run, three remote tokens
MaxConn == 4       \* connection ids ever created
MaxRef == 2         \* reference count a key may reach by requests
MaxTime == 1        \* seconds the clock advances
MaxAttempts == 2    \* attempts reported by a NonFatalConnectionError

----------------------------------------------------------------------------
(* Tokens: PeerAuthorizationToken and PeerTokenPair *)

Trust(n) == <<0, n>>
Challenge(n) == <<1, n>>
IsTrust(t) == t[1] = 0
IsChallenge(t) == t[1] = 1

\* the total order on tokens: discriminant first, then the content
TokenLess(a, b) == a[1] < b[1] \/ (a[1] = b[1] /\ a[2] < b[2])
TokenGreater(a, b) == TokenLess(b, a)

PeerTokenPair(id, local) == <<id, local>>

None == "none"
\* no identity yet (a connection requested by endpoint only), and the unit reply
NoToken == <<>>
Unit == [handle |-> "Unit", peer |-> <<>>]

----------------------------------------------------------------------------
(* Maps with a dynamic domain *)

EmptyMap == [x \in {} |-> None]
Put(f, k, v) == [x \in (DOMAIN f) \cup {k} |-> IF x = k THEN v ELSE f[x]]
Del(f, k) == [x \in (DOMAIN f) \ {k} |-> f[x]]
Has(f, k) == k \in DOMAIN f

Contains(s, e) == \E i \in 1..Len(s) : s[i] = e

----------------------------------------------------------------------------
(* RefMap *)

\* add_ref: the map after the call; the new count is RefCount of the result
add_ref(refs, k) == IF Has(refs, k) THEN [refs EXCEPT ![k] = @ + 1] ELSE Put(refs, k, 1)
RefCount(refs, k) == IF Has(refs, k) THEN refs[k] ELSE 0
\* remove_ref: Err (NotFound) when absent, Some(k) when the count drops to 0
remove_ref_found(refs, k) == Has(refs, k)
remove_ref_last(refs, k) == Has(refs, k) /\ refs[k] = 1
remove_ref(refs, k) ==
    IF ~Has(refs, k) THEN refs
    ELSE IF refs[k] = 1 THEN Del(refs, k) ELSE [refs EXCEPT ![k] = @ - 1]

----------------------------------------------------------------------------
(* PeerMap and PeerStatus *)

Pending == [s |-> "Pending", retry_attempts |-> 0]
Connected == [s |-> "Connected", retry_attempts |-> 0]
Disconnected(n) == [s |-> "Disconnected", retry_attempts |-> n]

KeyOf(meta) == PeerTokenPair(meta.id, meta.required_local_auth)

\* PeerMap::insert builds the metadata with the initial retry frequency rf
peers_insert(peers, id, cid, endpoints, active, status, local, old, rf, t) ==
    Put(peers, PeerTokenPair(id, local),
        [id |-> id, required_local_auth |-> local, connection_id |-> cid,
         endpoints |-> endpoints, active_endpoint |-> active, status |-> status,
         retry_frequency |-> rf, last_connection_attempt |-> t,
         old_connection_ids |-> old])

\* PeerMap::update_peer replaces the metadata of an existing key
update_peer(peers, meta) ==
    IF Has(peers, KeyOf(meta)) THEN [peers EXCEPT ![KeyOf(meta)] = meta] ELSE peers

\* keys whose current connection id is cid (get_by_connection_id finds one)
ByConnectionId(peers, cid) == {k \in DOMAIN peers : peers[k].connection_id = cid}
\* keys whose configured endpoints include ep (get_peer_from_endpoint)
ByEndpoint(peers, ep) == {k \in DOMAIN peers : Contains(peers[k].endpoints, ep)}
contains_endpoint(peers, ep) == ByEndpoint(peers, ep) # {}
get_pending(peers) == {k \in DOMAIN peers : peers[k].status = Pending}
peer_ids(peers) == {k[1] : k \in DOMAIN peers}
connection_ids(peers) == {<<k, peers[k].connection_id>> : k \in DOMAIN peers}

(* UnreferencedPeerState *)

UnreferencedPeer(cid, ep, local, old) ==
    [connection_id |-> cid, endpoint |-> ep, local_authorization |-> local,
     old_connection_ids |-> old]
UnrefByConnectionId(unref, cid) == {k \in DOMAIN unref : unref[k].connection_id = cid}

----------------------------------------------------------------------------
(* Outputs of one handler run: the reply sent on the request's channel, the *)
(* calls made on the Connector, the notifications broadcast to subscribers  *)

NoReply == [kind |-> "none", val |-> None]
Ok(v) == [kind |-> "ok", val |-> v]
Err(e) == [kind |-> "err", val |-> e]

ReqCall(ep, cid, remote, local, ok) ==
    [op |-> "request", ep |-> ep, cid |-> cid, remote |-> remote, local |-> local, ok |-> ok]
RemCall(ep, cid) ==
    [op |-> "remove", ep |-> ep, cid |-> cid, remote |-> NoToken, local |-> NoToken, ok |-> TRUE]

NConnected(k) == [type |-> "Connected", peer |-> k]
NDisconnected(k) == [type |-> "Disconnected", peer |-> k]

PeerRef(k) == [handle |-> "PeerRef", peer |-> k]
EndpointPeerRef(ep, cid) == [handle |-> "EndpointPeerRef", peer |-> <<ep, cid>>]

Clear(st) == [st EXCEPT !.reply = NoReply, !.calls = <<>>, !.notes = <<>>]

\* the Connection Manager has a connection (endpoint, id)
CmHas(cm, ep, cid) == \E c \in cm : c.ep = ep /\ c.cid = cid

\* request_connection on eps[1..], in order, stopping after the first Ok
RECURSIVE RequestUntilOk(_, _, _, _, _)
RequestUntilOk(eps, cid, remote, local, okEps) ==
    IF eps = <<>> THEN <<>>
    ELSE IF Head(eps) \in okEps
         THEN <<ReqCall(Head(eps), cid, remote, local, TRUE)>>
         ELSE <<ReqCall(Head(eps), cid, remote, local, FALSE)>>
              \o RequestUntilOk(Tail(eps), cid, remote, local, okEps)

\* request_connection on every endpoint of eps, in order
RequestAll(eps, cid, remote, local, okEps) ==
    [i \in 1..Len(eps) |-> ReqCall(eps[i], cid, remote, local, eps[i] \in okEps)]

\* the endpoints of the calls that returned Ok, in call order
OkEndpoints(calls) == SelectSeq(calls, LAMBDA c : c.op = "request" /\ c.ok)

----------------------------------------------------------------------------
(* Request handlers *)

\* a faulty variant: only the first endpoint of the list is looked up
check_first_endpoint_only(peer_id, endpoints, peers) ==
    IF IsChallenge(peer_id) \/ endpoints = <<>> THEN FALSE
    ELSE \E k \in ByEndpoint(peers, endpoints[1]) :
            IsTrust(peers[k].id) /\ peers[k].id # peer_id
check_for_duplicate_endpoint(peer_id, endpoints, peers) ==
    IF IsChallenge(peer_id) THEN FALSE
    ELSE \E i \in 1..Len(endpoints) : \E k \in ByEndpoint(peers, endpoints[i]) :
            IsTrust(peers[k].id) /\ peers[k].id # peer_id

\* add_peer, the branch for a key whose reference count was already positive
add_peer_existing(st, K, endpoints, refs1) ==
    IF Has(st.peers, K)
    THEN LET meta == st.peers[K]
             notes == IF meta.status = Connected THEN <<NConnected(K)>> ELSE <<>>
         IN IF Len(meta.endpoints) = 1 /\ Len(endpoints) > 1
            THEN IF Has(st.req, meta.endpoints[1]) /\ Contains(endpoints, meta.endpoints[1])
                 THEN [st EXCEPT !.refs = refs1,
                                 !.peers = update_peer(st.peers, [meta EXCEPT !.endpoints = endpoints]),
                                 !.notes = notes, !.reply = Ok(PeerRef(K))]
                 ELSE [st EXCEPT !.refs = remove_ref(refs1, K), !.reply = Err("mismatch")]
            ELSE [st EXCEPT !.refs = refs1, !.notes = notes, !.reply = Ok(PeerRef(K))]
    ELSE [st EXCEPT !.refs = refs1, !.reply = Err("missing metadata")]

\* add_peer, the branch that promotes an unreferenced peer
add_peer_promote(st, K, endpoints, refs1, t) ==
    LET u == st.unref[K]
    IN [st EXCEPT !.refs = refs1,
                  !.unref = Del(st.unref, K),
                  !.peers = peers_insert(st.peers, K[1], u.connection_id, endpoints, u.endpoint,
                                         Connected, K[2], u.old_connection_ids,
                                         st.retry_frequency, t),
                  !.notes = <<NConnected(K)>>, !.reply = Ok(PeerRef(K))]

\* a faulty variant: the first endpoint stays active whatever the requests return
add_peer_new_first_active(st, K, endpoints, refs1, cid, okEps, t) ==
    IF endpoints = <<>>
    THEN [st EXCEPT !.refs = remove_ref(refs1, K), !.reply = Err("no endpoints")]
    ELSE LET calls == RequestUntilOk(endpoints, cid, K[1], K[2], okEps)
         IN [st EXCEPT !.refs = refs1, !.calls = calls,
                       !.peers = peers_insert(st.peers, K[1], cid, endpoints, endpoints[1],
                                              Pending, K[2], <<>>, st.retry_frequency, t),
                       !.reply = Ok(PeerRef(K))]
\* add_peer, the branch for a new peer
add_peer_new(st, K, endpoints, refs1, cid, okEps, t) ==
    IF endpoints = <<>>
    THEN [st EXCEPT !.refs = remove_ref(refs1, K), !.reply = Err("no endpoints")]
    ELSE LET calls == RequestUntilOk(endpoints, cid, K[1], K[2], okEps)
             oks == OkEndpoints(calls)
             active == IF oks = <<>> THEN endpoints[1] ELSE oks[1].ep
         IN [st EXCEPT !.refs = refs1, !.calls = calls,
                       !.peers = peers_insert(st.peers, K[1], cid, endpoints, active,
                                              Pending, K[2], <<>>, st.retry_frequency, t),
                       !.reply = Ok(PeerRef(K))]

add_peer(st0, peer_id, endpoints, required_local_auth, cid, okEps, t) ==
    LET st == Clear(st0)
        K == PeerTokenPair(peer_id, required_local_auth)
        refs1 == add_ref(st.refs, K)
    IN IF check_for_duplicate_endpoint(peer_id, endpoints, st.peers)
       THEN [st EXCEPT !.reply = Err("duplicate endpoint")]
       ELSE IF refs1[K] > 1 THEN add_peer_existing(st, K, endpoints, refs1)
       ELSE IF Has(st.unref, K) THEN add_peer_promote(st, K, endpoints, refs1, t)
       ELSE add_peer_new(st, K, endpoints, refs1, cid, okEps, t)

\* the peers add_unidentified may attach to: endpoint and local token match
UnidentifiedMatches(st, endpoint, local) ==
    {k \in ByEndpoint(st.peers, endpoint) : st.peers[k].required_local_auth = local}

\* a faulty variant: the matching peer gets no reference
add_unidentified_uncounted(st0, endpoint, local_authorization, m, cid, okEps) ==
    LET st == Clear(st0)
    IN IF m # None
       THEN [st EXCEPT !.reply = Ok(EndpointPeerRef(endpoint, st.peers[m].connection_id))]
       ELSE [st EXCEPT !.calls = <<ReqCall(endpoint, cid, NoToken, local_authorization,
                                           endpoint \in okEps)>>,
                       !.req = Put(st.req, endpoint,
                                   [endpoint |-> endpoint,
                                    local_authorization |-> local_authorization]),
                       !.reply = Ok(EndpointPeerRef(endpoint, cid))]
\* m is the matching peer the loop meets first, None when there is none
add_unidentified(st0, endpoint, local_authorization, m, cid, okEps) ==
    LET st == Clear(st0)
    IN IF m # None
       THEN [st EXCEPT !.refs = add_ref(st.refs, m),
                       !.reply = Ok(EndpointPeerRef(endpoint, st.peers[m].connection_id))]
       ELSE [st EXCEPT !.calls = <<ReqCall(endpoint, cid, NoToken, local_authorization,
                                           endpoint \in okEps)>>,
                       !.req = Put(st.req, endpoint,
                                   [endpoint |-> endpoint,
                                    local_authorization |-> local_authorization]),
                       !.reply = Ok(EndpointPeerRef(endpoint, cid))]

\* a faulty variant: the connection of a Pending peer is removed as well
remove_last_closing_pending(st, K, cm) ==
    IF remove_ref_last(st.refs, K)
    THEN IF ~Has(st.peers, K)
         THEN [st EXCEPT !.refs = remove_ref(st.refs, K), !.reply = Err("already removed")]
         ELSE LET meta == st.peers[K]
                  st1 == [st EXCEPT !.refs = remove_ref(st.refs, K), !.peers = Del(st.peers, K)]
              IN [st1 EXCEPT !.calls = <<RemCall(meta.active_endpoint, meta.connection_id)>>,
                             !.reply = IF CmHas(cm, meta.active_endpoint, meta.connection_id)
                                       THEN Ok(Unit) ELSE Err("connection already removed")]
    ELSE [st EXCEPT !.refs = remove_ref(st.refs, K), !.reply = Ok(Unit)]
\* what remove_peer and remove_peer_by_endpoint do once the reference is found
remove_last_or_decrement(st, K, cm) ==
    IF remove_ref_last(st.refs, K)
    THEN IF ~Has(st.peers, K)
         THEN [st EXCEPT !.refs = remove_ref(st.refs, K), !.reply = Err("already removed")]
         ELSE LET meta == st.peers[K]
                  st1 == [st EXCEPT !.refs = remove_ref(st.refs, K), !.peers = Del(st.peers, K)]
              IN IF meta.status = Pending
                 THEN [st1 EXCEPT !.reply = Ok(Unit)]
                 ELSE [st1 EXCEPT !.calls = <<RemCall(meta.active_endpoint, meta.connection_id)>>,
                                  !.reply = IF CmHas(cm, meta.active_endpoint, meta.connection_id)
                                            THEN Ok(Unit) ELSE Err("connection already removed")]
    ELSE [st EXCEPT !.refs = remove_ref(st.refs, K), !.reply = Ok(Unit)]

\* a faulty variant: the reference is given back, the peer-map entry stays
remove_peer_keeps_entry(st0, peer_id, cm) ==
    [Clear(st0) EXCEPT !.unref = Del(st0.unref, peer_id),
                       !.refs = remove_ref(st0.refs, peer_id),
                       !.reply = Ok(Unit)]
remove_peer(st0, peer_id, cm) ==
    LET st == [Clear(st0) EXCEPT !.unref = Del(st0.unref, peer_id)]
    IN IF ~remove_ref_found(st.refs, peer_id)
       THEN IF st.strict_ref_counts
            THEN [st EXCEPT !.panicked = TRUE]
            ELSE [st EXCEPT !.reply = Err("no reference")]
       ELSE remove_last_or_decrement(st, peer_id, cm)

\* a faulty variant: a missing reference is an error reply, whatever
\* strict_ref_counts says
remove_peer_by_endpoint_lenient(st0, endpoint, connection_id, m, cm) ==
    LET st == Clear(st0)
    IN IF m = None THEN [st EXCEPT !.reply = Err("already removed")]
       ELSE IF ~remove_ref_found(st.refs, m)
            THEN [st EXCEPT !.reply = Err("no reference")]
            ELSE remove_last_or_decrement(st, m, cm)
\* m is the peer get_by_connection_id finds, None when there is none
remove_peer_by_endpoint(st0, endpoint, connection_id, m, cm) ==
    LET st == Clear(st0)
    IN IF m = None THEN [st EXCEPT !.reply = Err("already removed")]
       ELSE IF ~remove_ref_found(st.refs, m)
            THEN IF st.strict_ref_counts
                 THEN [st EXCEPT !.panicked = TRUE]
                 ELSE [st EXCEPT !.reply = Err("no reference")]
            ELSE remove_last_or_decrement(st, m, cm)

----------------------------------------------------------------------------
(* Handlers of the Connection Manager's notifications *)

\* a faulty variant: an unreferenced peer that lists the id among its old
\* connection ids is taken for the disconnected one
handle_disconnection_old_ids(st0, endpoint, identity, connection_id, m, mu, okEps) ==
    LET st == Clear(st0)
        olds == {k \in DOMAIN st.unref : Contains(st.unref[k].old_connection_ids, connection_id)}
    IN IF m # None
       THEN LET meta == st.peers[m]
            IN IF endpoint # meta.active_endpoint THEN st
               ELSE IF Contains(meta.endpoints, endpoint)
               THEN [st EXCEPT !.peers = update_peer(st.peers, [meta EXCEPT !.status = Disconnected(1)]),
                               !.notes = <<NDisconnected(m)>>]
               ELSE [st EXCEPT !.calls = <<RemCall(meta.active_endpoint, meta.connection_id)>>
                                   \o RequestUntilOk(meta.endpoints, meta.connection_id, identity,
                                                     meta.required_local_auth, okEps),
                               !.peers = update_peer(st.peers, [meta EXCEPT !.status = Pending]),
                               !.notes = <<NDisconnected(m)>>]
       ELSE IF mu # None
       THEN [st EXCEPT !.unref = Del(st.unref, mu),
                       !.calls = <<RemCall(st.unref[mu].endpoint, st.unref[mu].connection_id)>>]
       ELSE IF olds # {}
       THEN LET k == CHOOSE k \in olds : TRUE
            IN [st EXCEPT !.unref = Del(st.unref, k),
                          !.calls = <<RemCall(st.unref[k].endpoint, st.unref[k].connection_id)>>]
       ELSE st
\* m is the peer get_by_connection_id finds, mu the unreferenced peer
handle_disconnection(st0, endpoint, identity, connection_id, m, mu, okEps) ==
    LET st == Clear(st0)
    IN IF m # None
       THEN LET meta == st.peers[m]
            IN IF endpoint # meta.active_endpoint THEN st
               ELSE IF Contains(meta.endpoints, endpoint)
               THEN [st EXCEPT !.peers = update_peer(st.peers, [meta EXCEPT !.status = Disconnected(1)]),
                               !.notes = <<NDisconnected(m)>>]
               ELSE [st EXCEPT !.calls = <<RemCall(meta.active_endpoint, meta.connection_id)>>
                                   \o RequestUntilOk(meta.endpoints, meta.connection_id, identity,
                                                     meta.required_local_auth, okEps),
                               !.peers = update_peer(st.peers, [meta EXCEPT !.status = Pending]),
                               !.notes = <<NDisconnected(m)>>]
       ELSE IF mu # None
       THEN [st EXCEPT !.unref = Del(st.unref, mu),
                       !.calls = <<RemCall(st.unref[mu].endpoint, st.unref[mu].connection_id)>>]
       ELSE st

\* the NonFatalConnectionError arm of handle_notifications: first a faulty
\* variant that looks for another endpoint at the first failed attempt
handle_non_fatal_eager(st0, endpoint, attempts, connection_id, m, okEps) ==
    LET st == Clear(st0)
    IN IF m = None THEN st
       ELSE LET meta == st.peers[m]
                others == SelectSeq(meta.endpoints, LAMBDA e : e # meta.active_endpoint)
                updated == update_peer(st.peers, [meta EXCEPT !.status = Disconnected(attempts)])
            IN IF endpoint # meta.active_endpoint THEN st
               ELSE [st EXCEPT !.calls = RequestUntilOk(others, meta.connection_id, meta.id,
                                                        meta.required_local_auth, okEps),
                               !.peers = updated]
handle_non_fatal(st0, endpoint, attempts, connection_id, m, okEps) ==
    LET st == Clear(st0)
    IN IF m = None THEN st
       ELSE LET meta == st.peers[m]
                others == SelectSeq(meta.endpoints, LAMBDA e : e # meta.active_endpoint)
                updated == update_peer(st.peers, [meta EXCEPT !.status = Disconnected(attempts)])
            IN IF attempts >= st.max_retry_attempts
               THEN IF endpoint # meta.active_endpoint THEN st
                    ELSE [st EXCEPT !.calls = RequestUntilOk(others, meta.connection_id, meta.id,
                                                             meta.required_local_auth, okEps),
                                    !.peers = updated]
               ELSE [st EXCEPT !.peers = updated]

\* the update both handle_inbound_connection and handle_connected make to a
\* peer of the peer map that takes the new connection; first a faulty variant
\* that broadcasts nothing
take_connection_silently(st, K, endpoint, connection_id, t) ==
    LET meta == st.peers[K]
        new == [meta EXCEPT !.status = Connected, !.connection_id = connection_id,
                            !.retry_frequency = st.retry_frequency,
                            !.last_connection_attempt = t, !.active_endpoint = endpoint]
    IN [st EXCEPT !.peers = update_peer(st.peers, new),
                  !.calls = IF connection_id # meta.connection_id /\ meta.status # Pending
                            THEN <<RemCall(meta.active_endpoint, meta.connection_id)>>
                            ELSE <<>>]
take_connection(st, K, endpoint, connection_id, t) ==
    LET meta == st.peers[K]
        new == [meta EXCEPT !.status = Connected, !.connection_id = connection_id,
                            !.retry_frequency = st.retry_frequency,
                            !.last_connection_attempt = t, !.active_endpoint = endpoint]
    IN [st EXCEPT !.peers = update_peer(st.peers, new),
                  !.notes = <<NConnected(K)>>,
                  !.calls = IF connection_id # meta.connection_id /\ meta.status # Pending
                            THEN <<RemCall(meta.active_endpoint, meta.connection_id)>>
                            ELSE <<>>]

\* the replacement both handlers make of an unreferenced peer's connection
replace_unreferenced(st, K, endpoint, connection_id, local_authorization) ==
    LET u == st.unref[K]
    IN [st EXCEPT !.calls = <<RemCall(u.endpoint, u.connection_id)>>,
                  !.unref = [st.unref EXCEPT ![K] =
                      UnreferencedPeer(connection_id, endpoint, local_authorization,
                                       Append(u.old_connection_ids, u.connection_id))]]

\* the tie-break tests: the stored local token against the remote identity,
\* each preceded by a faulty variant with the comparison turned around
inbound_rejected_if_less(local, identity) == TokenLess(local, identity)
inbound_rejected(local, identity) == TokenGreater(local, identity)
outbound_rejected_if_greater(local, identity) == TokenGreater(local, identity)
outbound_rejected(local, identity) == TokenLess(local, identity)

\* a faulty variant: the new inbound peer is announced to the subscribers
handle_inbound_announcing(st0, endpoint, identity, connection_id, local_authorization, t) ==
    LET st == Clear(st0)
        K == PeerTokenPair(identity, local_authorization)
    IN IF Has(st.peers, K)
       THEN IF st.peers[K].status = Connected
               /\ inbound_rejected(st.peers[K].required_local_auth, identity)
            THEN [st EXCEPT !.calls = <<RemCall(endpoint, connection_id)>>]
            ELSE take_connection(st, K, endpoint, connection_id, t)
       ELSE IF Has(st.unref, K)
       THEN IF inbound_rejected(st.unref[K].local_authorization, identity)
            THEN [st EXCEPT !.calls = <<RemCall(endpoint, connection_id)>>]
            ELSE replace_unreferenced(st, K, endpoint, connection_id, local_authorization)
       ELSE [st EXCEPT !.notes = <<NConnected(K)>>,
                       !.unref = Put(st.unref, K,
                 UnreferencedPeer(connection_id, endpoint, local_authorization, <<>>))]
handle_inbound_connection(st0, endpoint, identity, connection_id, local_authorization, t) ==
    LET st == Clear(st0)
        K == PeerTokenPair(identity, local_authorization)
    IN IF Has(st.peers, K)
       THEN IF st.peers[K].status = Connected
               /\ inbound_rejected(st.peers[K].required_local_auth, identity)
            THEN [st EXCEPT !.calls = <<RemCall(endpoint, connection_id)>>]
            ELSE take_connection(st, K, endpoint, connection_id, t)
       ELSE IF Has(st.unref, K)
       THEN IF inbound_rejected(st.unref[K].local_authorization, identity)
            THEN [st EXCEPT !.calls = <<RemCall(endpoint, connection_id)>>]
            ELSE replace_unreferenced(st, K, endpoint, connection_id, local_authorization)
       ELSE [st EXCEPT !.unref = Put(st.unref, K,
                 UnreferencedPeer(connection_id, endpoint, local_authorization, <<>>))]

\* handle_connected, the branch that turns a requested endpoint into a peer
connected_requested(st, K, endpoint, connection_id, t) ==
    LET identity == K[1]
        requested_endpoint == st.req[endpoint]
        hasU == Has(st.unref, K)
        u == st.unref[K]
        keepU == hasU /\ outbound_rejected(u.local_authorization, identity)
        new_peer_endpoint == IF keepU THEN u.endpoint ELSE endpoint
        new_peer_connection_id == IF keepU THEN u.connection_id ELSE connection_id
        old_connection_ids ==
            IF ~hasU THEN <<>>
            ELSE IF keepU THEN Append(u.old_connection_ids, connection_id)
            ELSE <<u.connection_id>>
        calls ==
            IF ~hasU THEN <<>>
            ELSE IF keepU
            THEN (IF endpoint # u.endpoint THEN <<RemCall(endpoint, connection_id)>> ELSE <<>>)
            ELSE <<RemCall(u.endpoint, u.connection_id)>>
    IN [st EXCEPT !.unref = Del(st.unref, K),
                  !.calls = calls,
                  !.refs = add_ref(st.refs, K),
                  !.peers = peers_insert(st.peers, identity, new_peer_connection_id,
                                         <<endpoint>>, new_peer_endpoint, Connected,
                                         requested_endpoint.local_authorization,
                                         old_connection_ids, st.retry_frequency, t),
                  !.notes = <<NConnected(K)>>]

handle_connected(st0, endpoint, identity, connection_id, local_authorization, t) ==
    LET st == Clear(st0)
        K == PeerTokenPair(identity, local_authorization)
    IN IF Has(st.peers, K)
       THEN IF st.peers[K].status = Connected
               /\ outbound_rejected(st.peers[K].required_local_auth, identity)
            THEN [st EXCEPT !.calls = IF endpoint # st.peers[K].active_endpoint
                                      THEN <<RemCall(endpoint, connection_id)>> ELSE <<>>]
            ELSE take_connection(st, K, endpoint, connection_id, t)
       ELSE IF Has(st.req, endpoint)
       THEN connected_requested(st, K, endpoint, connection_id, t)
       ELSE IF Has(st.unref, K)
       THEN IF outbound_rejected(st.unref[K].local_authorization, identity)
            THEN [st EXCEPT !.calls = <<RemCall(endpoint, connection_id)>>]
            ELSE replace_unreferenced(st, K, endpoint, connection_id, local_authorization)
       ELSE [st EXCEPT !.unref = Put(st.unref, K,
                 UnreferencedPeer(connection_id, endpoint, local_authorization, <<>>))]

Min(a, b) == IF a < b THEN a ELSE b

\* m is the peer get_by_connection_id finds
handle_fatal_connection(st0, connection_id, m, max_frequency, t) ==
    LET st == Clear(st0)
    IN IF m = None THEN st
       ELSE LET meta == st.peers[m]
                new == [meta EXCEPT !.retry_frequency = Min(meta.retry_frequency * 2, max_frequency),
                                    !.last_connection_attempt = t,
                                    !.status = Pending]
            IN [st EXCEPT !.peers = update_peer(st.peers, new),
                          !.notes = <<NDisconnected(m)>>]

----------------------------------------------------------------------------
(* The retry sweep *)

RECURSIVE SetToSeq(_)
SetToSeq(S) == IF S = {} THEN <<>>
               ELSE LET x == CHOOSE y \in S : TRUE IN <<x>> \o SetToSeq(S \ {x})

RECURSIVE Flatten(_)
Flatten(ss) == IF ss = <<>> THEN <<>> ELSE Head(ss) \o Flatten(Tail(ss))

\* a faulty variant: a peer is due only after twice its delay
ToRetry_late(st, t) ==
    {k \in get_pending(st.peers) :
        t - st.peers[k].last_connection_attempt > 2 * st.peers[k].retry_frequency}
\* the pending peers whose delay has elapsed at time t
ToRetry(st, t) ==
    {k \in get_pending(st.peers) :
        t - st.peers[k].last_connection_attempt > st.peers[k].retry_frequency}

RetryCalls(meta, okEps) ==
    RequestAll(meta.endpoints, meta.connection_id, meta.id, meta.required_local_auth, okEps)

\* a faulty variant: the delay is not doubled
Retried_same_delay(meta, okEps, max_frequency, t) ==
    LET oks == OkEndpoints(RetryCalls(meta, okEps))
    IN [meta EXCEPT !.active_endpoint = IF oks = <<>> THEN @ ELSE oks[Len(oks)].ep,
                    !.retry_frequency = Min(meta.retry_frequency, max_frequency),
                    !.last_connection_attempt = t]
Retried(meta, okEps, max_frequency, t) ==
    LET oks == OkEndpoints(RetryCalls(meta, okEps))
    IN [meta EXCEPT !.active_endpoint = IF oks = <<>> THEN @ ELSE oks[Len(oks)].ep,
                    !.retry_frequency = Min(meta.retry_frequency * 2, max_frequency),
                    !.last_connection_attempt = t]

\* the requested endpoints the sweep asks for again at time t
EndpointsToRetry(st, t) ==
    IF t - st.unref_last > st.endpoint_retry_frequency
    THEN {e \in DOMAIN st.req : ~contains_endpoint(st.peers, st.req[e].endpoint)}
    ELSE {}

\* firstId is the first of the fresh ids the sweep draws
retry_pending(st0, okEps, t, firstId) ==
    LET st == Clear(st0)
        retry == SetToSeq(ToRetry(st, t))
        eps == SetToSeq(EndpointsToRetry(st, t))
        calls1 == Flatten([i \in 1..Len(retry) |-> RetryCalls(st.peers[retry[i]], okEps)])
        calls2 == [i \in 1..Len(eps) |->
                      ReqCall(eps[i], firstId + i - 1, NoToken,
                              st.req[eps[i]].local_authorization, eps[i] \in okEps)]
    IN [st EXCEPT !.peers = [k \in DOMAIN st.peers |->
                                IF k \in ToRetry(st, t) THEN Retried(st.peers[k], okEps, st.max_retry_frequency, t)
                                ELSE st.peers[k]],
                  !.calls = calls1 \o calls2,
                  !.unref_last = IF t - st.unref_last > st.endpoint_retry_frequency
                                 THEN t ELSE @]

----------------------------------------------------------------------------
(* The Connection Manager, as far as the actor can see it *)

Conn(ep, cid, remote, local, inbound, up) ==
    [ep |-> ep, cid |-> cid, remote |-> remote, local |-> local, inbound |-> inbound, up |-> up]

ApplyCall(cm, c) ==
    IF c.op = "remove" THEN {x \in cm : ~(x.ep = c.ep /\ x.cid = c.cid)}
    ELSE IF c.ok /\ ~CmHas(cm, c.ep, c.cid)
         THEN cm \cup {Conn(c.ep, c.cid, c.remote, c.local, FALSE, FALSE)}
         ELSE cm

RECURSIVE ApplyCalls(_, _)
ApplyCalls(cm, calls) ==
    IF calls = <<>> THEN cm ELSE ApplyCalls(ApplyCall(cm, Head(calls)), Tail(calls))

----------------------------------------------------------------------------
(* The actor's state after construction (PeerManager::build) *)

\* cfg: max_retry_attempts, retry_frequency, max_retry_frequency,
\* endpoint_retry_frequency, strict_ref_counts
NewActor(cfg) ==
    [peers |-> EmptyMap, unref |-> EmptyMap, req |-> EmptyMap, refs |-> EmptyMap,
     unref_last |-> 0,
     max_retry_attempts |-> cfg.max_retry_attempts,
     retry_frequency |-> cfg.retry_frequency,
     max_retry_frequency |-> cfg.max_retry_frequency,
     endpoint_retry_frequency |-> cfg.endpoint_retry_frequency,
     strict_ref_counts |-> cfg.strict_ref_counts, panicked |-> FALSE,
     subscribers |-> EmptyMap,
     reply |-> NoReply, calls |-> <<>>, notes |-> <<>>]

\* subscribers.broadcast: every subscriber receives the notifications of the
\* handler run, in order; subscribers maps an id to what its channel received
Broadcast(st) ==
    [st EXCEPT !.subscribers = [s \in DOMAIN st.subscribers |-> st.subscribers[s] \o st.notes]]

\* the status of K, by name
Status(st, K) == IF Has(st.peers, K) THEN st.peers[K].status.s ELSE "absent"

Count(f, k) == IF Has(f, k) THEN f[k] ELSE 0
Inc(f, k) == Put(f, k, Count(f, k) + 1)
Dec(f, k) == IF f[k] = 1 THEN Del(f, k) ELSE [f EXCEPT ![k] = @ - 1]

----------------------------------------------------------------------------
(* One node: the actions.  U is the universe the inputs are drawn from:     *)
(* U.R remote tokens, U.L local tokens, U.E endpoints, U.IE endpoints of    *)
(* inbound connections, U.EL endpoint lists, U.maxMsgs the length of a run. *)
(* The endpoint of an inbound connection is the address of the remote end,  *)
(* which is not an endpoint this node dials: U.IE and U.E are disjoint.     *)

Config ==
    [max_retry_attempts |-> 2, retry_frequency |-> 0, max_retry_frequency |-> 1,
     endpoint_retry_frequency |-> 0, strict_ref_counts |-> FALSE]

Init ==
    /\ actor = NewActor(Config)
    /\ conns = {}
    /\ prefs = EmptyMap
    /\ erefs = EmptyMap
    /\ nextId = 1
    /\ now = 0
    /\ msgs = 0
    /\ msg = [op |-> "none"]
    /\ pair = None
    /\ thread = None

Running == ~actor.panicked

\* the handler ran: the Connection Manager has served its calls
Handled(U, m, st, cm) ==
    /\ msgs < U.maxMsgs
    /\ msgs' = msgs + 1
    /\ msg' = m
    /\ actor' = Broadcast(st)
    /\ conns' = ApplyCalls(cm, st.calls)

\* add_peer draws a fresh id only for a new peer
AddPeerIsNew(st, K, eps) ==
    /\ ~check_for_duplicate_endpoint(K[1], eps, st.peers)
    /\ RefCount(st.refs, K) = 0
    /\ ~Has(st.unref, K)

AddPeer(U) ==
    \E id \in U.R, local \in U.L, eps \in U.EL, okEps \in SUBSET U.E :
        LET K == PeerTokenPair(id, local)
            st == add_peer(actor, id, eps, local, nextId, okEps, now)
            isNew == AddPeerIsNew(actor, K, eps)
        IN /\ Running
           /\ RefCount(actor.refs, K) < MaxRef
           /\ isNew => nextId <= MaxConn
           /\ Handled(U, [op |-> "AddPeer", peer_id |-> id, endpoints |-> eps,
                          required_local_auth |-> local], st, conns)
           /\ prefs' = IF st.reply.kind = "ok" THEN Inc(prefs, K) ELSE prefs
           /\ nextId' = IF isNew THEN nextId + 1 ELSE nextId
           /\ UNCHANGED <<erefs, now, pair, thread>>

AddUnidentified(U) ==
    \E ep \in U.E, local \in U.L, ok \in BOOLEAN :
        LET ms == UnidentifiedMatches(actor, ep, local)
        IN \E m \in IF ms = {} THEN {None} ELSE ms :
            LET st == add_unidentified(actor, ep, local, m, nextId, IF ok THEN {ep} ELSE {})
            IN /\ Running
               /\ m = None => nextId <= MaxConn
               /\ m # None => RefCount(actor.refs, m) < MaxRef
               /\ Count(erefs, st.reply.val.peer) < MaxRef
               /\ Handled(U, [op |-> "AddUnidentified", endpoint |-> ep,
                              local_authorization |-> local], st, conns)
               /\ erefs' = Inc(erefs, st.reply.val.peer)
               /\ nextId' = IF m = None THEN nextId + 1 ELSE nextId
               /\ UNCHANGED <<prefs, now, pair, thread>>

\* a PeerRef is dropped: PeerRemover sends RemovePeer
DropPeerRef(U) ==
    \E K \in DOMAIN prefs :
        /\ Running
        /\ Handled(U, [op |-> "RemovePeer", peer_id |-> K],
                   remove_peer(actor, K, conns), conns)
        /\ prefs' = Dec(prefs, K)
        /\ UNCHANGED <<erefs, nextId, now, pair, thread>>

\* an EndpointPeerRef is dropped: PeerRemover sends RemovePeerByEndpoint
DropEndpointPeerRef(U) ==
    \E p \in DOMAIN erefs :
        LET ms == ByConnectionId(actor.peers, p[2])
        IN \E m \in IF ms = {} THEN {None} ELSE ms :
            /\ Running
            /\ Handled(U, [op |-> "RemovePeerByEndpoint", endpoint |-> p[1], connection_id |-> p[2]],
                       remove_peer_by_endpoint(actor, p[1], p[2], m, conns), conns)
            /\ erefs' = Dec(erefs, p)
            /\ UNCHANGED <<prefs, nextId, now, pair, thread>>

\* a remote node connects to this one
InboundConnection(U) ==
    \E ep \in U.IE, id \in U.R, local \in U.L :
        /\ Running
        /\ nextId <= MaxConn
        /\ Handled(U, [op |-> "InboundConnection", endpoint |-> ep, connection_id |-> nextId,
                       identity |-> id, local_identity |-> local],
                   handle_inbound_connection(actor, ep, id, nextId, local, now),
                   conns \cup {Conn(ep, nextId, id, local, TRUE, TRUE)})
        /\ nextId' = nextId + 1
        /\ UNCHANGED <<prefs, erefs, now, pair, thread>>

\* a requested connection is authorized (or a lost one is back)
ConnectedNotification(U) ==
    \E c \in conns : \E id \in IF c.remote = NoToken THEN U.R ELSE {c.remote} :
        /\ Running
        /\ ~c.inbound /\ ~c.up
        /\ \/ Has(actor.peers, PeerTokenPair(id, c.local))
           \/ RefCount(actor.refs, PeerTokenPair(id, c.local)) < MaxRef
        /\ Handled(U, [op |-> "Connected", endpoint |-> c.ep, connection_id |-> c.cid,
                       identity |-> id, local_identity |-> c.local],
                   handle_connected(actor, c.ep, id, c.cid, c.local, now),
                   (conns \ {c}) \cup {[c EXCEPT !.remote = id, !.up = TRUE]})
        /\ UNCHANGED <<prefs, erefs, nextId, now, pair, thread>>

\* the peer found by connection id, None when there is none
Found(S) == IF S = {} THEN {None} ELSE S

\* an established connection is lost; an inbound one is not retried
DisconnectedNotification(U) ==
    \E c \in conns, okEps \in SUBSET U.E :
        \E m \in Found(ByConnectionId(actor.peers, c.cid)),
           mu \in Found(UnrefByConnectionId(actor.unref, c.cid)) :
            /\ Running
            /\ c.up
            /\ Handled(U, [op |-> "Disconnected", endpoint |-> c.ep, identity |-> c.remote,
                           connection_id |-> c.cid],
                       handle_disconnection(actor, c.ep, c.remote, c.cid, m, mu, okEps),
                       IF c.inbound THEN conns \ {c}
                       ELSE (conns \ {c}) \cup {[c EXCEPT !.up = FALSE]})
            /\ UNCHANGED <<prefs, erefs, nextId, now, pair, thread>>

\* an attempt to reconnect a lost outbound connection failed
NonFatalConnectionError(U) ==
    \E c \in conns, attempts \in 1..MaxAttempts, okEps \in SUBSET U.E :
        \E m \in Found(ByConnectionId(actor.peers, c.cid)) :
            /\ Running
            /\ ~c.inbound /\ ~c.up /\ c.remote # NoToken
            /\ Handled(U, [op |-> "NonFatalConnectionError", endpoint |-> c.ep,
                           attempts |-> attempts, connection_id |-> c.cid],
                       handle_non_fatal(actor, c.ep, attempts, c.cid, m, okEps), conns)
            /\ UNCHANGED <<prefs, erefs, nextId, now, pair, thread>>

\* a connection failed for good: the Connection Manager forgets it
FatalConnectionError(U) ==
    \E c \in conns :
        \E m \in Found(ByConnectionId(actor.peers, c.cid)) :
            /\ Running
            /\ ~c.inbound
            /\ Handled(U, [op |-> "FatalConnectionError", connection_id |-> c.cid],
                       handle_fatal_connection(actor, c.cid, m, actor.max_retry_attempts, now),
                       conns \ {c})
            /\ UNCHANGED <<prefs, erefs, nextId, now, pair, thread>>

\* the pacemaker's message
RetryPending(U) ==
    \E okEps \in SUBSET U.E :
        LET n == Cardinality(EndpointsToRetry(actor, now))
        IN /\ Running
           /\ ToRetry(actor, now) # {} \/ now - actor.unref_last > actor.endpoint_retry_frequency
           /\ nextId + n - 1 <= MaxConn
           /\ Handled(U, [op |-> "RetryPending"], retry_pending(actor, okEps, now, nextId), conns)
           /\ nextId' = nextId + n
           /\ UNCHANGED <<prefs, erefs, now, pair, thread>>

Tick ==
    /\ now < MaxTime
    /\ now' = now + 1
    /\ UNCHANGED <<actor, conns, prefs, erefs, nextId, msgs, msg, pair, thread>>

Requests(U) == AddPeer(U) \/ AddUnidentified(U) \/ DropPeerRef(U) \/ DropEndpointPeerRef(U)

Notifications(U) ==
    \/ InboundConnection(U)
    \/ ConnectedNotification(U)
    \/ DisconnectedNotification(U)
    \/ NonFatalConnectionError(U)
    \/ FatalConnectionError(U)

\* one remote node reached under two local tokens
Universe ==
    [R |-> {Trust(1)}, L |-> {Trust(0), Trust(2)}, E |-> {"e1"}, IE |-> {"in"},
     EL |-> {<<"e1">>}, maxMsgs |-> MaxMsgs]

Next == Requests(Universe) \/ Notifications(Universe) \/ RetryPending(Universe) \/ Tick

Spec == Init /\ [][Next]_vars

\* Trust and Challenge remote nodes on two endpoints, one local token
UniverseTrust ==
    [R |-> {Trust(1), Trust(3), Challenge(1)}, L |-> {Trust(2)}, E |-> {"e1", "e2"},
     IE |-> {"in"}, EL |-> {<<>>, <<"e1">>, <<"e2">>, <<"e1", "e2">>},
     maxMsgs |-> MaxMsgsTrust]

NextTrust ==
    \/ Requests(UniverseTrust) \/ Notifications(UniverseTrust)
    \/ RetryPending(UniverseTrust) \/ Tick

SpecTrust == Init /\ [][NextTrust]_vars

\* add_peer_ref and dropped PeerRefs only, one local token
UniverseRefs ==
    [R |-> {Trust(1), Trust(3)}, L |-> {Trust(2)}, E |-> {"e1"}, IE |-> {"in"},
     EL |-> {<<"e1">>}, maxMsgs |-> MaxMsgs]

NextRefs ==
    \/ AddPeer(UniverseRefs) \/ DropPeerRef(UniverseRefs)
    \/ Notifications(UniverseRefs) \/ RetryPending(UniverseRefs) \/ Tick

SpecRefs == Init /\ [][NextRefs]_vars

----------------------------------------------------------------------------
(* Two nodes that dial each other at the same time.  Each node runs the    *)
(* actor's handlers on its own state; node n names the connection it dialed *)
(* 1 and the connection the other node dialed 2.                            *)

Nodes == {"A", "B"}
Other(n) == IF n = "A" THEN "B" ELSE "A"
Listen(n) == "listen" \o n      \* the endpoint node n listens on
Addr(n) == "addr" \o n          \* the address node n dials from
PairTokens == {Trust(1), Trust(2), Challenge(1)}

\* the physical connection node n names cid: the node that dialed it
Physical(n, cid) == IF cid = 1 THEN n ELSE Other(n)

InitPair ==
    /\ actor = NewActor(Config)
    /\ conns = {}
    /\ prefs = EmptyMap
    /\ erefs = EmptyMap
    /\ nextId = 1
    /\ now = 0
    /\ msgs = 0
    /\ msg = [op |-> "none"]
    /\ \E ta \in PairTokens : \E tb \in PairTokens \ {ta} :
          pair = [tok |-> [n \in Nodes |-> IF n = "A" THEN ta ELSE tb],
                  st |-> [n \in Nodes |-> NewActor(Config)],
                  done |-> [n \in Nodes |-> <<>>],
                  connected |-> [n \in Nodes |-> 0],
                  removed |-> [n \in Nodes |-> {}]]
    /\ thread = None

PeerKey(n) == PeerTokenPair(pair.tok[Other(n)], pair.tok[n])

ConnectedNotes(st, k) == Len(SelectSeq(st.notes, LAMBDA x : x = NConnected(k)))
RemovedIds(st) == {st.calls[i].cid : i \in {j \in 1..Len(st.calls) : st.calls[j].op = "remove"}}

\* node n has handled event e with the resulting state st
PairHandled(n, e, st) ==
    /\ pair' = [pair EXCEPT !.st[n] = st,
                            !.done[n] = Append(@, e),
                            !.connected[n] = @ + ConnectedNotes(st, PeerKey(n)),
                            !.removed[n] = @ \cup {Physical(n, c) : c \in RemovedIds(st)}]
    /\ UNCHANGED <<actor, conns, prefs, erefs, nextId, now, msgs, msg, thread>>

PairAddPeer ==
    \E n \in Nodes :
        /\ pair.done[n] = <<>>
        /\ PairHandled(n, "add",
               add_peer(pair.st[n], pair.tok[Other(n)], <<Listen(Other(n))>>, pair.tok[n],
                        1, {Listen(Other(n))}, 0))

\* the connection node n dialed is authorized
PairConnected ==
    \E n \in Nodes :
        /\ Contains(pair.done[n], "add") /\ ~Contains(pair.done[n], "connected")
        /\ PairHandled(n, "connected",
               handle_connected(pair.st[n], Listen(Other(n)), pair.tok[Other(n)], 1,
                                pair.tok[n], 0))

\* the connection the other node dialed arrives at node n
PairInbound ==
    \E n \in Nodes :
        /\ Contains(pair.done[n], "add") /\ Contains(pair.done[Other(n)], "add")
        /\ ~Contains(pair.done[n], "inbound")
        /\ PairHandled(n, "inbound",
               handle_inbound_connection(pair.st[n], Addr(Other(n)), pair.tok[Other(n)], 2,
                                         pair.tok[n], 0))

NextPair == PairAddPeer \/ PairConnected \/ PairInbound

SpecPair == InitPair /\ [][NextPair]_vars

\* node n has handled both notifications
BothHandled(n) == Contains(pair.done[n], "connected") /\ Contains(pair.done[n], "inbound")
\* the node whose token is the greater
Greater == IF TokenGreater(pair.tok["A"], pair.tok["B"]) THEN "A" ELSE "B"
\* the physical connection node n holds for its peer
Kept(n) == Physical(n, pair.st[n].peers[PeerKey(n)].connection_id)

----------------------------------------------------------------------------
(* Subscribers, and the run in which the Connection Manager connects:       *)
(* every requested connection is authorized and its Connected notification  *)
(* reaches the actor, which handles every message of its channel.           *)

MaxSubs == 1        \* subscribers that register
MaxMsgsLive == 3    \* messages other than Connected notifications in a run

SubscriberId(s) == [handle |-> "SubscriberId", peer |-> <<s>>]

\* PeerManagerRequest::Subscribe: the new subscriber has received nothing yet
Subscribe(U) ==
    LET s == Cardinality(DOMAIN actor.subscribers) + 1
        st == [Clear(actor) EXCEPT !.subscribers = Put(actor.subscribers, s, <<>>),
                                   !.reply = Ok(SubscriberId(s))]
    IN /\ Running
       /\ s <= MaxSubs
       /\ Handled(U, [op |-> "Subscribe"], st, conns)
       /\ UNCHANGED <<prefs, erefs, nextId, now, pair, thread>>

UniverseLive ==
    [R |-> {Trust(1), Trust(3)}, L |-> {Trust(2)}, E |-> {"e1", "e2"}, IE |-> {"in"},
     EL |-> {<<"e1">>, <<"e1", "e2">>}, maxMsgs |-> MaxMsgsLive]

\* the Connected notifications are not counted against the length of the run:
\* each connection (endpoint, id) is reported connected once
UniverseLiveConnected ==
    [UniverseLive EXCEPT !.maxMsgs = MaxMsgsLive + MaxConn * Cardinality(UniverseLive.E)]

NextLive ==
    \/ Subscribe(UniverseLive)
    \/ AddPeer(UniverseLive)
    \/ InboundConnection(UniverseLive)
    \/ ConnectedNotification(UniverseLiveConnected)
    \/ RetryPending(UniverseLive)
    \/ Tick

SpecLive ==
    Init /\ [][NextLive]_vars /\ WF_vars(ConnectedNotification(UniverseLiveConnected))

----------------------------------------------------------------------------
(* Failover: one peer configured with the endpoints e1 and e2 connects on   *)
(* e1; the connection on e1 is torn down and e1 stays unreachable, e2 is     *)
(* reachable.  One subscriber, one add_peer_ref, no drop.                    *)

MaxMsgsFailover == 7   \* messages other than Connected notifications in a run

UniverseFailover ==
    [R |-> {Trust(1)}, L |-> {Trust(2)}, E |-> {"e1", "e2"}, IE |-> {"in"},
     EL |-> {<<"e1", "e2">>}, maxMsgs |-> MaxMsgsFailover]

UniverseFailoverConnected ==
    [UniverseFailover EXCEPT
        !.maxMsgs = MaxMsgsFailover + MaxConn * Cardinality(UniverseFailover.E)]

FailoverKey == PeerTokenPair(Trust(1), Trust(2))

\* a request for a connection to e2 that this step makes succeeds
SecondReachable == \A i \in 1..Len(actor'.calls) : actor'.calls[i].ep = "e2" => actor'.calls[i].ok

\* the subscribers register before the peer is added
FailoverSubscribe == prefs = EmptyMap /\ Subscribe(UniverseFailover)

\* the peer is added once, and e1 accepts the connection
FailoverAddPeer ==
    /\ prefs = EmptyMap
    /\ AddPeer(UniverseFailover)
    /\ Len(actor'.calls) = 1 /\ actor'.calls[1].ok

\* e1 connects only the first time
FailoverConnected ==
    /\ ConnectedNotification(UniverseFailoverConnected)
    /\ msg'.endpoint = "e1" => Status(actor, FailoverKey) = "Pending"

\* only the connection on e1 is torn down
FailoverDisconnected ==
    /\ DisconnectedNotification(UniverseFailover)
    /\ msg'.endpoint = "e1"

\* the Connection Manager fails to reconnect e1
FailoverNonFatal ==
    /\ Status(actor, FailoverKey) # "Pending"
    /\ NonFatalConnectionError(UniverseFailover)
    /\ msg'.endpoint = "e1"
    /\ SecondReachable

\* the pacemaker's sweeps, once the first connection is made
FailoverRetryPending ==
    /\ Status(actor, FailoverKey) \notin {"absent", "Pending"}
    /\ RetryPending(UniverseFailover)

NextFailover ==
    \/ FailoverSubscribe
    \/ FailoverAddPeer
    \/ FailoverConnected
    \/ FailoverDisconnected
    \/ FailoverNonFatal
    \/ FailoverRetryPending
    \/ Tick

SpecFailover == Init /\ [][NextFailover]_vars /\ WF_vars(FailoverConnected)

----------------------------------------------------------------------------
(* A node whose retry delay starts at its cap, and whose max_retry_attempts *)
(* is greater than that cap                                                 *)

ConfigFrequency ==
    [max_retry_attempts |-> 2, retry_frequency |-> 1, max_retry_frequency |-> 1,
     endpoint_retry_frequency |-> 0, strict_ref_counts |-> FALSE]

InitFrequency ==
    /\ actor = NewActor(ConfigFrequency)
    /\ conns = {}
    /\ prefs = EmptyMap
    /\ erefs = EmptyMap
    /\ nextId = 1
    /\ now = 0
    /\ msgs = 0
    /\ msg = [op |-> "none"]
    /\ pair = None
    /\ thread = None

SpecFrequency == InitFrequency /\ [][NextRefs]_vars

----------------------------------------------------------------------------
(* Claims about the maps between two messages *)

\* C1: after each message, every key of the peer map has a reference count
\* of at least 1 in the reference map.
C1_PeerKeysReferenced ==
    \A k \in DOMAIN actor.peers : RefCount(actor.refs, k) >= 1

\* C2: after each message, no key is in both the peer map and the
\* unreferenced-peer table.
C2_PeerMapUnreferencedDisjoint ==
    (DOMAIN actor.peers) \cap (DOMAIN actor.unref) = {}

NoHandles == prefs = EmptyMap /\ erefs = EmptyMap

\* C3: a peer stays in the peer map while a handle obtained for it is
\* outstanding (stated for PeerRefs, whose key is the peer), and when the
\* last outstanding handle is dropped and its removal processed no peer is
\* left in the peer map.
C3_HandlesKeepPeer ==
    /\ [](\A K \in DOMAIN prefs : Has(actor.peers, K))
    /\ [][(~NoHandles /\ NoHandles') => DOMAIN actor'.peers = {}]_vars

\* C4: with add_peer_ref and drops of PeerRefs only, the remote token of K
\* is listed by list_peers() exactly while a PeerRef for K is outstanding:
\* still listed after n-1 of n drops, no longer listed after the n-th.
C4_ListedWhileReferenced ==
    \A id \in UniverseRefs.R : \A local \in UniverseRefs.L :
        Has(prefs, PeerTokenPair(id, local)) <=> id \in peer_ids(actor.peers)

\* two PeerRefs were obtained for K and one of them has been dropped
C4_Witness ==
    \E K \in DOMAIN prefs :
        /\ prefs[K] = 1 /\ DOMAIN prefs = {K}
        /\ msg = [op |-> "RemovePeer", peer_id |-> K]
        /\ actor.reply = Ok(Unit)
        /\ K[1] \in peer_ids(actor.peers)

SharedEndpoint(m1, m2) ==
    \E i \in 1..Len(m1.endpoints) : Contains(m2.endpoints, m1.endpoints[i])

\* C5: no two peer-map entries with distinct Trust remote tokens have a
\* configured endpoint in common.
C5_TrustEndpointsDistinct ==
    \A k1 \in DOMAIN actor.peers : \A k2 \in DOMAIN actor.peers :
        (IsTrust(k1[1]) /\ IsTrust(k2[1]) /\ k1[1] # k2[1])
            => ~SharedEndpoint(actor.peers[k1], actor.peers[k2])

\* the actor handles a message of kind op in this step
Handles(op) == msgs' # msgs /\ msg'.op = op

\* some entry of peers with another Trust token is configured with one of eps
HeldByOtherTrust(peers, id, eps) ==
    \E k \in DOMAIN peers :
        /\ IsTrust(k[1]) /\ k[1] # id
        /\ \E i \in 1..Len(eps) : Contains(peers[k].endpoints, eps[i])

\* C6: AddPeer with a Trust peer_id and an endpoint held by a peer-map entry
\* with another Trust token replies with an error, leaves the three maps
\* unchanged and calls nothing on the Connector; AddPeer with a Challenge
\* peer_id is never answered with that error.
C6_DuplicateEndpointRejected ==
    [][Handles("AddPeer") =>
        /\ (IsTrust(msg'.peer_id)
              /\ HeldByOtherTrust(actor.peers, msg'.peer_id, msg'.endpoints))
            => /\ actor'.reply.kind = "err"
               /\ actor'.refs = actor.refs
               /\ actor'.peers = actor.peers
               /\ actor'.unref = actor.unref
               /\ actor'.calls = <<>>
        /\ IsChallenge(msg'.peer_id) => actor'.reply # Err("duplicate endpoint")]_vars

C6_Witness ==
    /\ msg.op = "AddPeer" /\ IsTrust(msg.peer_id)
    /\ HeldByOtherTrust(actor.peers, msg.peer_id, msg.endpoints)
    /\ actor.reply = Err("duplicate endpoint")

\* C7: when both nodes have handled both notifications, both hold the
\* connection dialed by the node with the greater token, and each has asked
\* its Connection Manager to remove the other connection (and only that).
C7_SameConnectionKept ==
    (BothHandled("A") /\ BothHandled("B")) =>
        \A n \in Nodes : Kept(n) = Greater /\ pair.removed[n] = {Other(Greater)}

C7_Witness ==
    /\ pair.done["A"] = <<"add", "inbound", "connected">>
    /\ pair.done["B"] = <<"add", "inbound", "connected">>
    /\ Kept("A") = Kept("B")

Winning(n) == IF n = Greater THEN "connected" ELSE "inbound"

BecomesConnected(K) == Status(actor, K) # "Connected" /\ Status(actor', K) = "Connected"
KeysAround ==
    (DOMAIN actor.peers) \cup (DOMAIN actor'.peers)
        \cup {actor'.notes[i].peer : i \in 1..Len(actor'.notes)}

NotifKey == PeerTokenPair(msg'.identity, msg'.local_identity)
\* a Connected notification turns a requested endpoint into a peer
Resolving ==
    /\ msg'.op = "Connected"
    /\ ~Has(actor.peers, NotifKey)
    /\ Has(actor.req, msg'.endpoint)
ResolvedKey == PeerTokenPair(msg'.identity, actor.req[msg'.endpoint].local_authorization)
\* the steps that broadcast Connected{K} again for a peer that stays Connected
Rebroadcasts(K) ==
    /\ Status(actor, K) = "Connected" /\ Status(actor', K) = "Connected"
    /\ \/ /\ msg'.op = "AddPeer" /\ actor'.reply = Ok(PeerRef(K))
       \/ /\ msg'.op \in {"InboundConnection", "Connected"}
          /\ K = NotifKey
          /\ actor'.peers[K].connection_id = msg'.connection_id

C10_UnreferencedPromoted ==
    [][Handles("AddPeer") =>
        LET K == PeerTokenPair(msg'.peer_id, msg'.required_local_auth)
        IN (Has(actor.unref, K) /\ ~Has(actor.peers, K)) =>
              /\ ~Has(actor'.unref, K)
              /\ Has(actor'.peers, K)
              /\ actor'.peers[K].status = Connected
              /\ actor'.peers[K].connection_id = actor.unref[K].connection_id
              /\ actor'.peers[K].active_endpoint = actor.unref[K].endpoint
              /\ actor'.peers[K].old_connection_ids = actor.unref[K].old_connection_ids
              /\ RefCount(actor'.refs, K) = 1
              /\ actor'.notes = <<NConnected(K)>>
              /\ actor'.reply = Ok(PeerRef(K))
              /\ actor'.calls = <<>>]_vars

\* C11: an InboundConnection for a key that is in neither the peer map nor
\* the unreferenced table puts the key in the unreferenced table only: the
\* peer map (so list_peers) and the reference map are as before, the key is
\* listed by list_unreferenced_peers, nothing is broadcast.
C11_InboundUnknownUnreferencedOnly ==
    [][Handles("InboundConnection") =>
        LET K == PeerTokenPair(msg'.identity, msg'.local_identity)
        IN (~Has(actor.peers, K) /\ ~Has(actor.unref, K)) =>
              /\ actor'.peers = actor.peers
              /\ peer_ids(actor'.peers) = peer_ids(actor.peers)
              /\ ~Has(actor'.peers, K)
              /\ Has(actor'.unref, K)
              /\ actor'.unref[K].connection_id = msg'.connection_id
              /\ DOMAIN actor'.unref = DOMAIN actor.unref \cup {K}
              /\ actor'.refs = actor.refs
              /\ actor'.notes = <<>>]_vars

C11_Witness ==
    /\ msg.op = "InboundConnection"
    /\ LET K == PeerTokenPair(msg.identity, msg.local_identity)
       IN /\ Has(actor.unref, K)
          /\ actor.unref[K].connection_id = msg.connection_id
          /\ actor.unref[K].old_connection_ids = <<>>
          /\ ~Has(actor.peers, K)

LiveKeys == {PeerTokenPair(id, local) : id \in UniverseLive.R, local \in UniverseLive.L}

\* K was added as a new peer and the Connection Manager has accepted the
\* request for a connection to one of its endpoints
AddedConnectable(K) ==
    /\ Has(prefs, K)
    /\ Status(actor, K) = "Pending"
    /\ \E c \in conns : c.cid = actor.peers[K].connection_id /\ ~c.inbound /\ ~c.up

Received(s, n) == \E i \in 1..Len(actor.subscribers[s]) : actor.subscribers[s][i] = n

ConnectedAndAnnounced(K) ==
    /\ Status(actor, K) = "Connected"
    /\ K[1] \in peer_ids(actor.peers)
    /\ \A s \in DOMAIN actor.subscribers : Received(s, NConnected(K))

\* C12: a new peer K added with an endpoint the Connection Manager connects
\* eventually is Connected, listed by list_peers, and every subscriber has
\* received Connected{K}.
C12_AddedPeerConnects ==
    \A K \in LiveKeys : AddedConnectable(K) ~> ConnectedAndAnnounced(K)

C12_Witness ==
    \E K \in LiveKeys :
        /\ ConnectedAndAnnounced(K)
        /\ DOMAIN actor.subscribers # {}
        /\ msg.op = "Connected"
        /\ msg.connection_id = actor.peers[K].connection_id

IsPrefix(s, t) == Len(s) <= Len(t) /\ \A i \in 1..Len(s) : s[i] = t[i]

FailoverNotifications ==
    <<NConnected(FailoverKey), NDisconnected(FailoverKey), NConnected(FailoverKey)>>

\* what the subscriber of the failover run has received is the whole sequence
FailedOver == \E s \in DOMAIN actor.subscribers : actor.subscribers[s] = FailoverNotifications

\* the subscriber has seen the peer go down and e2 has accepted a connection
SecondRequested ==
    /\ \E s \in DOMAIN actor.subscribers :
          actor.subscribers[s] = SubSeq(FailoverNotifications, 1, 2)
    /\ \E c \in conns : c.ep = "e2" /\ ~c.up

C14_RetryFrequencyCapped ==
    \A k \in DOMAIN actor.peers :
        actor.peers[k].retry_frequency <= actor.max_retry_frequency

----------------------------------------------------------------------------
(* A node built with or without strict_ref_counts                           *)

ConfigStrict(strict) == [Config EXCEPT !.strict_ref_counts = strict]

InitStrict ==
    /\ \E strict \in BOOLEAN : actor = NewActor(ConfigStrict(strict))
    /\ conns = {}
    /\ prefs = EmptyMap
    /\ erefs = EmptyMap
    /\ nextId = 1
    /\ now = 0
    /\ msgs = 0
    /\ msg = [op |-> "none"]
    /\ pair = None
    /\ thread = None

SpecStrict == InitStrict /\ [][Next]_vars

\* C15: while a peer stays Disconnected from one message to the next, its
\* retry_attempts does not decrease.
C15_RetryAttemptsMonotonic ==
    [][\A k \in (DOMAIN actor.peers) \cap (DOMAIN actor'.peers) :
          (Status(actor, k) = "Disconnected" /\ Status(actor', k) = "Disconnected")
              => actor'.peers[k].status.retry_attempts >= actor.peers[k].status.retry_attempts]_vars

\* the removal in this step names, or resolves only to, keys without a
\* reference-map entry
RemovesUnreferenced ==
    \/ Handles("RemovePeer") /\ ~Has(actor.refs, msg'.peer_id)
    \/ /\ Handles("RemovePeerByEndpoint")
       /\ ByConnectionId(actor.peers, msg'.connection_id) # {}
       /\ \A m \in ByConnectionId(actor.peers, msg'.connection_id) : ~Has(actor.refs, m)

\* the removal in this step may have met a key without a reference-map entry
MayRemoveUnreferenced ==
    \/ Handles("RemovePeer") /\ ~Has(actor.refs, msg'.peer_id)
    \/ /\ Handles("RemovePeerByEndpoint")
       /\ \E m \in ByConnectionId(actor.peers, msg'.connection_id) : ~Has(actor.refs, m)

\* C16: a removal of a key that has no reference-map entry aborts the actor
\* under strict_ref_counts; without it the actor replies with an error, keeps
\* running and leaves the reference map and the peer map as they were.  The
\* actor aborts in no other step.
C16_UnreferencedRemoval ==
    [][/\ RemovesUnreferenced =>
            IF actor.strict_ref_counts
            THEN actor'.panicked
            ELSE /\ ~actor'.panicked
                 /\ actor'.reply.kind = "err"
                 /\ actor'.refs = actor.refs
                 /\ actor'.peers = actor.peers
       /\ (actor'.panicked /\ ~actor.panicked) =>
            actor.strict_ref_counts /\ MayRemoveUnreferenced]_vars

C16_Witness ==
    /\ actor.panicked
    /\ msg.op = "RemovePeerByEndpoint"

C16_LenientCase ==
    /\ ~actor.strict_ref_counts
    /\ msg.op \in {"RemovePeer", "RemovePeerByEndpoint"}
    /\ actor.reply = Err("no reference")

\* C17: AddPeer with an empty endpoint list replies with an error, and leaves
\* the key's reference count, the peer map and the unreferenced table as
\* they were.
C17_EmptyEndpointsRejected ==
    [][(Handles("AddPeer") /\ msg'.endpoints = <<>>) =>
          LET K == PeerTokenPair(msg'.peer_id, msg'.required_local_auth)
          IN /\ actor'.reply.kind = "err"
             /\ RefCount(actor'.refs, K) = RefCount(actor.refs, K)
             /\ actor'.peers = actor.peers
             /\ actor'.unref = actor.unref]_vars

\* the request of this step is AddPeer for K, in the peer map with the
\* requested endpoint list
ReAdds(K) ==
    /\ Handles("AddPeer")
    /\ K = PeerTokenPair(msg'.peer_id, msg'.required_local_auth)
    /\ Has(actor.peers, K)
    /\ actor.peers[K].endpoints = msg'.endpoints

\* C18: AddPeer for a key already in the peer map, with the same endpoint
\* list, returns a handle for the key; the key's reference count grows by
\* one, no connection is requested, connection_id, status and
\* active_endpoint stay, and Connected is broadcast exactly when the status
\* is Connected.
C18_ReAddExisting ==
    [][\A K \in DOMAIN actor.peers : ReAdds(K) =>
          /\ actor'.reply = Ok(PeerRef(K))
          /\ RefCount(actor'.refs, K) = RefCount(actor.refs, K) + 1
          /\ actor'.calls = <<>>
          /\ Has(actor'.peers, K)
          /\ actor'.peers[K].connection_id = actor.peers[K].connection_id
          /\ actor'.peers[K].status = actor.peers[K].status
          /\ actor'.peers[K].active_endpoint = actor.peers[K].active_endpoint
          /\ actor'.notes = IF Status(actor, K) = "Connected" THEN <<NConnected(K)>> ELSE <<>>]_vars

\* C19: after a FatalConnectionError for the connection of an entry of the
\* unreferenced table, the entry is no longer in the table.
C19_FatalDestroysUnreferenced ==
    [][Handles("FatalConnectionError") =>
          \A K \in DOMAIN actor.unref :
              actor.unref[K].connection_id = msg'.connection_id => ~Has(actor'.unref, K)]_vars

----------------------------------------------------------------------------
(* The actor's channel and thread: senders enqueue, the loop takes the      *)
(* messages one at a time until it meets Shutdown                           *)

MaxSent == 6

Shutdown == [op |-> "Shutdown"]

UniverseShutdown ==
    [R |-> {Trust(1)}, L |-> {Trust(2)}, E |-> {"e1"}, IE |-> {"in"},
     EL |-> {<<"e1">>}, maxMsgs |-> MaxSent]

\* The node is built with strict_ref_counts, as test_peer_manager_shutdown
\* builds it.  mailbox: the channel; sent: every message enqueued so far; handled: the
\* messages the loop has taken; state: running, stopped (the loop met
\* Shutdown and the thread ended) or aborted (a handler panicked);
\* ignored: removal requests of dropped handles that found the channel closed
InitShutdown ==
    /\ actor = NewActor(ConfigStrict(TRUE))
    /\ conns = {}
    /\ prefs = EmptyMap
    /\ erefs = EmptyMap
    /\ nextId = 1
    /\ now = 0
    /\ msgs = 0
    /\ msg = [op |-> "none"]
    /\ pair = None
    /\ thread = [mailbox |-> <<>>, sent |-> <<>>, handled |-> <<>>, state |-> "running",
                 signalled |-> FALSE, joined |-> FALSE, ignored |-> 0]

\* sender.send(m) while the receiver lives
Enqueue(m) ==
    /\ thread.state = "running"
    /\ Len(thread.sent) < MaxSent
    /\ thread' = [thread EXCEPT !.mailbox = Append(@, m), !.sent = Append(@, m)]

\* the send of a dropped handle: enqueued, or ignored when the actor is gone
SendRemoval(m) ==
    IF thread.state = "running"
    THEN Enqueue(m)
    ELSE thread' = [thread EXCEPT !.ignored = 1]

\* the caller's request is in the channel: add_peer_ref and
\* add_unidentified_peer wait for the reply before they return
Awaiting ==
    \E i \in 1..Len(thread.mailbox) : thread.mailbox[i].op \in {"AddPeer", "AddUnidentified"}

SendAddPeer ==
    \E id \in UniverseShutdown.R, local \in UniverseShutdown.L, eps \in UniverseShutdown.EL :
        /\ ~Awaiting
        /\ Enqueue([op |-> "AddPeer", peer_id |-> id, endpoints |-> eps,
                    required_local_auth |-> local])
        /\ UNCHANGED <<actor, conns, prefs, erefs, nextId, now, msgs, msg, pair>>

SendAddUnidentified ==
    \E ep \in UniverseShutdown.E, local \in UniverseShutdown.L :
        /\ ~Awaiting
        /\ Enqueue([op |-> "AddUnidentified", endpoint |-> ep, local_authorization |-> local])
        /\ UNCHANGED <<actor, conns, prefs, erefs, nextId, now, msgs, msg, pair>>

SendDropPeerRef ==
    \E K \in DOMAIN prefs :
        /\ SendRemoval([op |-> "RemovePeer", peer_id |-> K])
        /\ prefs' = Dec(prefs, K)
        /\ UNCHANGED <<actor, conns, erefs, nextId, now, msgs, msg, pair>>

SendDropEndpointPeerRef ==
    \E p \in DOMAIN erefs :
        /\ SendRemoval([op |-> "RemovePeerByEndpoint", endpoint |-> p[1], connection_id |-> p[2]])
        /\ erefs' = Dec(erefs, p)
        /\ UNCHANGED <<actor, conns, prefs, nextId, now, msgs, msg, pair>>

\* the Connection Manager authorizes a requested connection and notifies
SendConnected ==
    \E c \in conns : \E id \in IF c.remote = NoToken THEN UniverseShutdown.R ELSE {c.remote} :
        /\ ~c.inbound /\ ~c.up
        /\ Enqueue([op |-> "Connected", endpoint |-> c.ep, connection_id |-> c.cid,
                    identity |-> id, local_identity |-> c.local])
        /\ conns' = (conns \ {c}) \cup {[c EXCEPT !.remote = id, !.up = TRUE]}
        /\ UNCHANGED <<actor, prefs, erefs, nextId, now, msgs, msg, pair>>

signal_shutdown ==
    /\ ~thread.signalled
    /\ thread' = IF thread.state = "running"
                 THEN [thread EXCEPT !.signalled = TRUE, !.mailbox = Append(@, Shutdown),
                                     !.sent = Append(@, Shutdown)]
                 ELSE [thread EXCEPT !.signalled = TRUE]
    /\ UNCHANGED <<actor, conns, prefs, erefs, nextId, now, msgs, msg, pair>>

\* the loop has taken the head of the channel; st is the handler's result
Taken(st) ==
    /\ msgs' = msgs + 1
    /\ msg' = Head(thread.mailbox)
    /\ actor' = Broadcast(st)
    /\ conns' = ApplyCalls(conns, st.calls)
    /\ thread' = [thread EXCEPT !.mailbox = Tail(@),
                                !.handled = Append(@, Head(thread.mailbox)),
                                !.state = IF st.panicked THEN "aborted" ELSE "running"]

ReceiveShutdown ==
    /\ thread.state = "running" /\ thread.mailbox # <<>>
    /\ Head(thread.mailbox) = Shutdown
    /\ msgs' = msgs + 1
    /\ msg' = Shutdown
    /\ thread' = [thread EXCEPT !.mailbox = Tail(@), !.handled = Append(@, Shutdown),
                                !.state = "stopped"]
    /\ UNCHANGED <<actor, conns, prefs, erefs, nextId, now, pair>>

ReceiveRequest ==
    /\ thread.state = "running" /\ thread.mailbox # <<>>
    /\ LET m == Head(thread.mailbox)
       IN \/ /\ m.op = "AddPeer"
             /\ \E okEps \in SUBSET UniverseShutdown.E :
                  LET K == PeerTokenPair(m.peer_id, m.required_local_auth)
                      st == add_peer(actor, m.peer_id, m.endpoints, m.required_local_auth,
                                     nextId, okEps, now)
                  IN /\ Taken(st)
                     /\ prefs' = IF st.reply.kind = "ok" THEN Inc(prefs, K) ELSE prefs
                     /\ nextId' = IF AddPeerIsNew(actor, K, m.endpoints)
                                  THEN nextId + 1 ELSE nextId
                     /\ UNCHANGED <<erefs, now, pair>>
          \/ /\ m.op = "AddUnidentified"
             /\ \E ok \in BOOLEAN :
                  \E f \in Found(UnidentifiedMatches(actor, m.endpoint, m.local_authorization)) :
                    LET st == add_unidentified(actor, m.endpoint, m.local_authorization, f,
                                               nextId, IF ok THEN {m.endpoint} ELSE {})
                    IN /\ Taken(st)
                       /\ erefs' = Inc(erefs, st.reply.val.peer)
                       /\ nextId' = IF f = None THEN nextId + 1 ELSE nextId
                       /\ UNCHANGED <<prefs, now, pair>>
          \/ /\ m.op = "RemovePeer"
             /\ Taken(remove_peer(actor, m.peer_id, conns))
             /\ UNCHANGED <<prefs, erefs, nextId, now, pair>>
          \/ /\ m.op = "RemovePeerByEndpoint"
             /\ \E f \in Found(ByConnectionId(actor.peers, m.connection_id)) :
                  Taken(remove_peer_by_endpoint(actor, m.endpoint, m.connection_id, f, conns))
             /\ UNCHANGED <<prefs, erefs, nextId, now, pair>>

ReceiveNotification ==
    /\ thread.state = "running" /\ thread.mailbox # <<>>
    /\ LET m == Head(thread.mailbox)
       IN /\ m.op = "Connected"
          /\ Taken(handle_connected(actor, m.endpoint, m.identity, m.connection_id,
                                    m.local_identity, now))
          /\ UNCHANGED <<prefs, erefs, nextId, now, pair>>

\* recv.recv() and the match on the message
Receive == ReceiveShutdown \/ ReceiveRequest \/ ReceiveNotification

\* join_handle.join() returns once the thread has ended
wait_for_shutdown ==
    /\ thread.state # "running" /\ ~thread.joined
    /\ thread' = [thread EXCEPT !.joined = TRUE]
    /\ UNCHANGED <<actor, conns, prefs, erefs, nextId, now, msgs, msg, pair>>

NextShutdown ==
    \/ SendAddPeer \/ SendAddUnidentified \/ SendDropPeerRef \/ SendDropEndpointPeerRef
    \/ SendConnected \/ signal_shutdown
    \/ ReceiveShutdown \/ ReceiveRequest \/ ReceiveNotification
    \/ wait_for_shutdown

SpecShutdown ==
    InitShutdown /\ [][NextShutdown]_vars /\ WF_thread(Receive) /\ WF_thread(wait_for_shutdown)

\* the messages enqueued up to and including the first Shutdown
RECURSIVE UpToShutdown(_)
UpToShutdown(s) ==
    IF s = <<>> THEN <<>>
    ELSE IF Head(s) = Shutdown THEN <<Shutdown>>
    ELSE <<Head(s)>> \o UpToShutdown(Tail(s))

\* signal_shutdown has put Shutdown in the channel
ShutdownSent == \E i \in 1..Len(thread.sent) : thread.sent[i] = Shutdown

\* C20: after signal_shutdown the actor takes, in arrival order, every
\* message enqueued before Shutdown, leaves its loop at Shutdown and takes
\* nothing enqueued after it, and wait_for_shutdown returns; the removal
\* request of a handle dropped after the actor stopped is ignored.
C20_ShutdownTerminates ==
    /\ [](IsPrefix(thread.handled, thread.sent))
    /\ [](thread.state = "stopped" => thread.handled = UpToShutdown(thread.sent))
    /\ [][(thread.state # "running" /\ (prefs' # prefs \/ erefs' # erefs))
            => /\ thread'.mailbox = thread.mailbox
               /\ thread'.handled = thread.handled
               /\ actor' = actor]_vars
    /\ ShutdownSent ~>
          (thread.joined /\ thread.state = "stopped"
             /\ thread.handled = UpToShutdown(thread.sent))

----------------------------------------------------------------------------
(* The requests that read the actor's state, and Unsubscribe                *)

MaxMsgsRequests == 4

UniverseRequests ==
    [R |-> {Trust(1)}, L |-> {Trust(0), Trust(2)}, E |-> {"e1"}, IE |-> {"in"},
     EL |-> {<<"e1">>}, maxMsgs |-> MaxMsgsRequests]

\* the actor after a request that changes nothing but the reply
ReplyOk(v) == [Clear(actor) EXCEPT !.reply = Ok(v)]

ListPeers(U) ==
    /\ Running
    /\ Handled(U, [op |-> "ListPeers"], ReplyOk(peer_ids(actor.peers)), conns)
    /\ UNCHANGED <<prefs, erefs, nextId, now, pair, thread>>

ListUnreferencedPeers(U) ==
    /\ Running
    /\ Handled(U, [op |-> "ListUnreferencedPeers"], ReplyOk(DOMAIN actor.unref), conns)
    /\ UNCHANGED <<prefs, erefs, nextId, now, pair, thread>>

ConnectionIds(U) ==
    /\ Running
    /\ Handled(U, [op |-> "ConnectionIds"], ReplyOk(connection_ids(actor.peers)), conns)
    /\ UNCHANGED <<prefs, erefs, nextId, now, pair, thread>>

\* the reply is an Option: <<x>> for Some(x), <<>> for None
GetConnectionId(U) ==
    \E id \in U.R, local \in U.L :
        LET K == PeerTokenPair(id, local)
        IN /\ Running
           /\ Handled(U, [op |-> "GetConnectionId", peer_id |-> K],
                      ReplyOk(IF Has(actor.peers, K) THEN <<actor.peers[K].connection_id>>
                              ELSE IF Has(actor.unref, K) THEN <<actor.unref[K].connection_id>>
                              ELSE <<>>), conns)
           /\ UNCHANGED <<prefs, erefs, nextId, now, pair, thread>>

GetPeerId(U) ==
    \E cid \in 1..MaxConn :
        \E m \in Found(ByConnectionId(actor.peers, cid)),
           mu \in Found(UnrefByConnectionId(actor.unref, cid)) :
            /\ Running
            /\ Handled(U, [op |-> "GetPeerId", connection_id |-> cid],
                       ReplyOk(IF m # None THEN <<m>> ELSE IF mu # None THEN <<mu>> ELSE <<>>),
                       conns)
            /\ UNCHANGED <<prefs, erefs, nextId, now, pair, thread>>

Unsubscribe(U) ==
    \E s \in 1..MaxSubs :
        /\ Running
        /\ Handled(U, [op |-> "Unsubscribe", subscriber_id |-> s],
                   [Clear(actor) EXCEPT !.subscribers = Del(actor.subscribers, s),
                                        !.reply = Ok(Unit)], conns)
        /\ UNCHANGED <<prefs, erefs, nextId, now, pair, thread>>

Queries(U) ==
    \/ ListPeers(U) \/ ListUnreferencedPeers(U) \/ ConnectionIds(U)
    \/ GetConnectionId(U) \/ GetPeerId(U)

NextRequests ==
    \/ Requests(UniverseRequests) \/ Queries(UniverseRequests)
    \/ Subscribe(UniverseRequests) \/ Unsubscribe(UniverseRequests)
    \/ ConnectedNotification(UniverseRequests)

SpecRequests == InitStrict /\ [][NextRequests]_vars

\* the variants of PeerManagerRequest
RequestOps ==
    {"AddPeer", "AddUnidentified", "RemovePeer", "RemovePeerByEndpoint", "ListPeers",
     "ListUnreferencedPeers", "ConnectionIds", "GetConnectionId", "GetPeerId",
     "Subscribe", "Unsubscribe"}

\* C21: every request the actor processes gets a reply on its channel (the
\* handler run leaves one reply, Ok or Err), and a message that is not a
\* request gets none.
C21_OneReplyPerRequest ==
    [][msgs' # msgs =>
          IF msg'.op \in RequestOps
          THEN actor'.reply.kind \in {"ok", "err"}
          ELSE actor'.reply = NoReply]_vars

\* the key an InboundConnection or Connected notification is about
NotifiedKey == PeerTokenPair(msg'.identity, msg'.local_identity)

\* C22: an inbound connection for a key whose status is Connected is removed
\* when required_local_auth > identity, the entry unchanged and nothing
\* broadcast; otherwise the entry takes the inbound's connection_id and
\* endpoint, stays Connected, and the previous connection is removed.
C22_InboundOnConnected ==
    [][(Handles("InboundConnection") /\ Status(actor, NotifiedKey) = "Connected") =>
          LET K == NotifiedKey
              old == actor.peers[K]
          IN IF TokenGreater(old.required_local_auth, msg'.identity)
             THEN /\ actor'.calls = <<RemCall(msg'.endpoint, msg'.connection_id)>>
                  /\ actor'.peers = actor.peers
                  /\ actor'.notes = <<>>
             ELSE /\ Has(actor'.peers, K)
                  /\ actor'.peers[K].connection_id = msg'.connection_id
                  /\ actor'.peers[K].active_endpoint = msg'.endpoint
                  /\ actor'.peers[K].status = Connected
                  /\ Contains(actor'.calls, RemCall(old.active_endpoint, old.connection_id))]_vars

C22_Witness ==
    /\ msg.op = "InboundConnection"
    /\ Status(actor, PeerTokenPair(msg.identity, msg.local_identity)) = "Connected"
    /\ actor.calls = <<RemCall(msg.endpoint, msg.connection_id)>>
    /\ actor.notes = <<>>

\* C23: a Connected notification for a key whose status is Connected, on a
\* connection other than the key's current one: when required_local_auth <
\* identity the entry is unchanged, nothing is broadcast and the new
\* connection is removed, whatever its endpoint; otherwise the entry takes
\* the new connection and the old one is removed.
C23_OutboundOnConnected ==
    [][(/\ Handles("Connected")
        /\ Status(actor, NotifiedKey) = "Connected"
        /\ actor.peers[NotifiedKey].connection_id # msg'.connection_id) =>
          LET K == NotifiedKey
              old == actor.peers[K]
          IN IF TokenLess(old.required_local_auth, msg'.identity)
             THEN /\ actor'.peers = actor.peers
                  /\ actor'.notes = <<>>
                  /\ actor'.calls = <<RemCall(msg'.endpoint, msg'.connection_id)>>
             ELSE /\ Has(actor'.peers, K)
                  /\ actor'.peers[K].connection_id = msg'.connection_id
                  /\ actor'.peers[K].active_endpoint = msg'.endpoint
                  /\ actor'.peers[K].status = Connected
                  /\ Contains(actor'.calls, RemCall(old.active_endpoint, old.connection_id))]_vars

\* C24: an inbound connection for a key of the unreferenced table is removed
\* when the stored local_authorization > identity, the entry unchanged;
\* otherwise the entry takes the inbound's connection_id and endpoint, the
\* previous connection is removed and its id is appended to
\* old_connection_ids.
C24_InboundOnUnreferenced ==
    [][(Handles("InboundConnection") /\ Has(actor.unref, NotifiedKey)) =>
          LET K == NotifiedKey
              u == actor.unref[K]
          IN IF TokenGreater(u.local_authorization, msg'.identity)
             THEN /\ actor'.calls = <<RemCall(msg'.endpoint, msg'.connection_id)>>
                  /\ actor'.unref = actor.unref
             ELSE /\ Has(actor'.unref, K)
                  /\ actor'.unref[K].connection_id = msg'.connection_id
                  /\ actor'.unref[K].endpoint = msg'.endpoint
                  /\ Contains(actor'.calls, RemCall(u.endpoint, u.connection_id))
                  /\ actor'.unref[K].old_connection_ids =
                        Append(u.old_connection_ids, u.connection_id)]_vars

\* C25: a Connected notification for a key not in the peer map, on a
\* requested endpoint: the key's reference count grows by one, the key is in
\* the peer map with status Connected and endpoint list [endpoint], and
\* Connected is broadcast for it; an unreferenced entry of the key is
\* removed and merged by the tie-break, the losing connection id recorded in
\* old_connection_ids.
C25_ConnectedPromotesRequested ==
    [][(/\ Handles("Connected")
        /\ ~Has(actor.peers, NotifiedKey)
        /\ Has(actor.req, msg'.endpoint)) =>
          LET K == NotifiedKey
          IN /\ RefCount(actor'.refs, K) = RefCount(actor.refs, K) + 1
             /\ Has(actor'.peers, K)
             /\ actor'.peers[K].status = Connected
             /\ actor'.peers[K].endpoints = <<msg'.endpoint>>
             /\ actor'.notes = <<NConnected(K)>>
             /\ ~Has(actor'.unref, K)
             /\ IF Has(actor.unref, K)
                THEN LET u == actor.unref[K]
                     IN IF TokenLess(u.local_authorization, msg'.identity)
                        THEN /\ actor'.peers[K].connection_id = u.connection_id
                             /\ actor'.peers[K].old_connection_ids =
                                   Append(u.old_connection_ids, msg'.connection_id)
                        ELSE /\ actor'.peers[K].connection_id = msg'.connection_id
                             /\ actor'.peers[K].old_connection_ids = <<u.connection_id>>
                ELSE /\ actor'.peers[K].connection_id = msg'.connection_id
                     /\ actor'.peers[K].old_connection_ids = <<>>]_vars

\* C26: AddUnidentified for an endpoint and local token that a peer-map
\* entry has: that entry's reference count grows by one, the handle carries
\* the entry's connection_id, no connection is requested and
\* requested_endpoints is unchanged.  Otherwise: one request_connection with
\* a fresh connection_id and no identity, requested_endpoints[endpoint] is
\* set, no reference count changes, and the handle is returned whether or
\* not the request succeeded.
C26_AddUnidentified ==
    [][Handles("AddUnidentified") =>
          LET ep == msg'.endpoint
              local == msg'.local_authorization
              ms == UnidentifiedMatches(actor, ep, local)
          IN IF ms # {}
             THEN /\ \E m \in ms :
                        /\ actor'.refs = Inc(actor.refs, m)
                        /\ actor'.reply = Ok(EndpointPeerRef(ep, actor.peers[m].connection_id))
                  /\ actor'.calls = <<>>
                  /\ actor'.req = actor.req
             ELSE /\ \A c \in conns : c.cid # nextId
                  /\ \E ok \in BOOLEAN :
                        actor'.calls = <<ReqCall(ep, nextId, NoToken, local, ok)>>
                  /\ actor'.req = Put(actor.req, ep, [endpoint |-> ep, local_authorization |-> local])
                  /\ actor'.refs = actor.refs
                  /\ actor'.reply = Ok(EndpointPeerRef(ep, nextId))]_vars

\* the request met a peer-map entry with its endpoint and local token
C26_Witness ==
    /\ msg.op = "AddUnidentified"
    /\ actor.calls = <<>>
    /\ actor.reply.kind = "ok"
    /\ \E k \in DOMAIN actor.peers : actor.peers[k].connection_id = actor.reply.val.peer[2]

\* the key of the AddPeer request handled in this step
AddedKey == PeerTokenPair(msg'.peer_id, msg'.required_local_auth)
\* AddPeer for a key without references and without unreferenced entry,
\* with at least one endpoint
AddsNewKey ==
    /\ Handles("AddPeer")
    /\ RefCount(actor.refs, AddedKey) = 0
    /\ ~Has(actor.unref, AddedKey)
    /\ msg'.endpoints # <<>>
\* the endpoints were requested in list order under the fresh id up to the
\* first Ok, that endpoint (the first of the list if none) is active, and the
\* key is Pending with one reference, a handle and no notification
NewKeyInserted ==
    LET K == AddedKey
        eps == msg'.endpoints
        calls == actor'.calls
        n == Len(calls)
    IN /\ n \in 1..Len(eps)
       /\ \A i \in 1..n :
             /\ calls[i].op = "request" /\ calls[i].ep = eps[i] /\ calls[i].cid = nextId
             /\ calls[i].remote = K[1] /\ calls[i].local = K[2]
             /\ i < n => ~calls[i].ok
       /\ calls[n].ok \/ n = Len(eps)
       /\ \A c \in conns : c.cid # nextId
       /\ Has(actor'.peers, K)
       /\ actor'.peers[K].active_endpoint = IF calls[n].ok THEN eps[n] ELSE eps[1]
       /\ actor'.peers[K].connection_id = nextId
       /\ actor'.peers[K].endpoints = eps
       /\ actor'.peers[K].status = Pending
       /\ RefCount(actor'.refs, K) = 1
       /\ actor'.reply = Ok(PeerRef(K))
       /\ actor'.notes = <<>>

\* C27: AddPeer for a new key (no reference, no unreferenced entry) with a
\* non-empty endpoint list requests the endpoints in list order with one
\* fresh connection_id up to the first Ok, which becomes active_endpoint (the
\* first endpoint if every request fails), and inserts the key as Pending
\* with reference count 1, returning a handle and broadcasting nothing.
C27_NewPeerInserted ==
    [][AddsNewKey => NewKeyInserted]_vars

\* C27, amended: the same for a request that passes the duplicate-endpoint
\* check; a request with an endpoint of another Trust peer is answered with
\* an error and inserts nothing.
C27_NewPeerInsertedUnlessDuplicate ==
    [][AddsNewKey =>
          IF check_for_duplicate_endpoint(msg'.peer_id, msg'.endpoints, actor.peers)
          THEN /\ actor'.reply = Err("duplicate endpoint")
               /\ actor'.peers = actor.peers /\ actor'.refs = actor.refs
               /\ actor'.calls = <<>> /\ actor'.notes = <<>>
          ELSE NewKeyInserted]_vars

\* a new peer whose first endpoint failed synchronously and whose second
\* was accepted
C27_Witness ==
    /\ msg.op = "AddPeer"
    /\ Len(actor.calls) = 2
    /\ ~actor.calls[1].ok /\ actor.calls[2].ok
    /\ \E K \in DOMAIN actor.peers :
          /\ actor.reply = Ok(PeerRef(K))
          /\ actor.peers[K].status = Pending
          /\ actor.peers[K].active_endpoint = actor.calls[2].ep
          /\ actor.peers[K].active_endpoint # actor.peers[K].endpoints[1]

----------------------------------------------------------------------------
(* One remote node with two endpoints, reached under one local token *)

MaxMsgsEndpoints == 5

UniverseEndpoints ==
    [R |-> {Trust(1)}, L |-> {Trust(2)}, E |-> {"e1", "e2"}, IE |-> {"in"},
     EL |-> {<<"e1", "e2">>}, maxMsgs |-> MaxMsgsEndpoints]

NextEndpoints ==
    \/ Requests(UniverseEndpoints) \/ Notifications(UniverseEndpoints)
    \/ RetryPending(UniverseEndpoints) \/ Tick

SpecEndpoints == Init /\ [][NextEndpoints]_vars

\* the peers whose connection_id is the one of the notification of this step
NotifiedPeers == ByConnectionId(actor.peers, msg'.connection_id)
\* calls is a request_connection on the first endpoints of eps, in order,
\* under the identifiers given (no call only if there is no endpoint)
RequestsInOrder(calls, eps, cid, local) ==
    /\ Len(calls) \in (IF eps = <<>> THEN {0} ELSE 1..Len(eps))
    /\ \A i \in 1..Len(calls) :
          /\ calls[i].op = "request" /\ calls[i].ep = eps[i]
          /\ calls[i].cid = cid /\ calls[i].local = local

\* C28: a Disconnected notification for the connection_id of a peer: when
\* its endpoint is the peer's active_endpoint and one of its configured
\* endpoints, the status becomes Disconnected{1} and the Connector is not
\* called; in every other case the peer's connection is removed, the status
\* becomes Pending and the configured endpoints are requested in order.
C28_DisconnectionBranches ==
    [][(Handles("Disconnected") /\ NotifiedPeers # {}) =>
          \E m \in NotifiedPeers :
             LET meta == actor.peers[m]
             IN IF msg'.endpoint = meta.active_endpoint
                   /\ Contains(meta.endpoints, msg'.endpoint)
                THEN /\ actor'.peers[m].status = Disconnected(1)
                     /\ actor'.calls = <<>>
                ELSE /\ actor'.calls # <<>>
                     /\ Head(actor'.calls) = RemCall(meta.active_endpoint, meta.connection_id)
                     /\ actor'.peers[m].status = Pending
                     /\ RequestsInOrder(Tail(actor'.calls), meta.endpoints,
                                        meta.connection_id, meta.required_local_auth)]_vars

\* C29: every Disconnected notification whose connection_id is the one of a
\* peer K broadcasts Disconnected{K} to the subscribers, whichever branch of
\* handle_disconnection runs.
C29_DisconnectedBroadcast ==
    [][(Handles("Disconnected") /\ NotifiedPeers # {}) =>
          \E K \in NotifiedPeers :
             /\ actor'.notes = <<NDisconnected(K)>>
             /\ \A s \in DOMAIN actor.subscribers :
                   actor'.subscribers[s] = actor.subscribers[s] \o <<NDisconnected(K)>>]_vars

\* C30: a NonFatalConnectionError for the connection_id of a peer sets the
\* peer's status to Disconnected{attempts}; with attempts at or above
\* max_retry_attempts the configured endpoints other than the active one are
\* requested under the peer's connection_id, and with fewer attempts no
\* connection is requested.
C30_NonFatalRetries ==
    [][(Handles("NonFatalConnectionError") /\ NotifiedPeers # {}) =>
          \E m \in NotifiedPeers :
             LET meta == actor.peers[m]
                 others == SelectSeq(meta.endpoints, LAMBDA e : e # meta.active_endpoint)
             IN /\ actor'.peers[m].status = Disconnected(msg'.attempts)
                /\ IF msg'.attempts >= actor.max_retry_attempts
                   THEN RequestsInOrder(actor'.calls, others, meta.connection_id,
                                        meta.required_local_auth)
                   ELSE actor'.calls = <<>>]_vars

----------------------------------------------------------------------------
(* The retry sweep over a longer time: one peer with two endpoints, a retry *)
(* delay that starts at 1 second and is capped at 3                         *)

MaxMsgsRetry == 4
MaxTimeRetry == 5

ConfigRetry ==
    [max_retry_attempts |-> 2, retry_frequency |-> 1, max_retry_frequency |-> 3,
     endpoint_retry_frequency |-> 0, strict_ref_counts |-> FALSE]

InitRetry ==
    /\ actor = NewActor(ConfigRetry)
    /\ conns = {}
    /\ prefs = EmptyMap
    /\ erefs = EmptyMap
    /\ nextId = 1
    /\ now = 0
    /\ msgs = 0
    /\ msg = [op |-> "none"]
    /\ pair = None
    /\ thread = None

UniverseRetry ==
    [R |-> {Trust(1)}, L |-> {Trust(2)}, E |-> {"e1", "e2"}, IE |-> {"in"},
     EL |-> {<<"e1", "e2">>}, maxMsgs |-> MaxMsgsRetry]

TickRetry ==
    /\ now < MaxTimeRetry
    /\ now' = now + 1
    /\ UNCHANGED <<actor, conns, prefs, erefs, nextId, msgs, msg, pair, thread>>

NextRetry ==
    \/ Requests(UniverseRetry) \/ Notifications(UniverseRetry)
    \/ RetryPending(UniverseRetry) \/ TickRetry

SpecRetry == InitRetry /\ [][NextRetry]_vars

\* the Pending peers whose last attempt is older than their retry delay
DuePeers ==
    {k \in DOMAIN actor.peers :
        /\ actor.peers[k].status = Pending
        /\ now - actor.peers[k].last_connection_attempt > actor.peers[k].retry_frequency}
\* the calls of this step that name the peer k
CallsFor(k) ==
    SelectSeq(actor'.calls, LAMBDA c : c.op = "request" /\ c.remote = k[1] /\ c.local = k[2])

\* C31: a RetryPending sweep requests connections with a peer's identity
\* only for the Pending peers whose delay has elapsed, on each configured
\* endpoint in list order; such a peer's active_endpoint becomes an endpoint
\* whose request succeeded (unchanged if none), its retry_frequency becomes
\* min(2 * retry_frequency, max_retry_frequency) and its
\* last_connection_attempt is stamped; every other peer is left unchanged.
C31_RetrySweep ==
    [][Handles("RetryPending") =>
          /\ DOMAIN actor'.peers = DOMAIN actor.peers
          /\ \A i \in 1..Len(actor'.calls) :
                /\ actor'.calls[i].op = "request"
                /\ actor'.calls[i].remote # NoToken =>
                      \E k \in DuePeers :
                         /\ actor'.calls[i].remote = k[1] /\ actor'.calls[i].local = k[2]
                         /\ actor'.calls[i].cid = actor.peers[k].connection_id
          /\ \A k \in DOMAIN actor.peers :
                LET meta == actor.peers[k]
                    calls == CallsFor(k)
                    oks == {calls[i].ep : i \in {j \in 1..Len(calls) : calls[j].ok}}
                IN IF k \in DuePeers
                   THEN /\ Len(calls) = Len(meta.endpoints)
                        /\ \A i \in 1..Len(calls) : calls[i].ep = meta.endpoints[i]
                        /\ actor'.peers[k].active_endpoint \in
                              (IF oks = {} THEN {meta.active_endpoint} ELSE oks)
                        /\ actor'.peers[k].retry_frequency =
                              (IF 2 * meta.retry_frequency < actor.max_retry_frequency
                               THEN 2 * meta.retry_frequency ELSE actor.max_retry_frequency)
                        /\ actor'.peers[k].last_connection_attempt = now
                        /\ actor'.peers[k] =
                              [meta EXCEPT !.active_endpoint = actor'.peers[k].active_endpoint,
                                           !.retry_frequency = actor'.peers[k].retry_frequency,
                                           !.last_connection_attempt = now]
                   ELSE /\ actor'.peers[k] = meta
                        /\ calls = <<>>]_vars

\* a sweep has doubled a peer's delay and made its second endpoint active
C31_Witness ==
    /\ msg.op = "RetryPending"
    /\ \E k \in DOMAIN actor.peers :
          /\ actor.peers[k].status = Pending
          /\ actor.peers[k].retry_frequency = 2
          /\ actor.peers[k].last_connection_attempt = now
          /\ actor.peers[k].active_endpoint = "e2"
          /\ Len(actor.calls) = 2

----------------------------------------------------------------------------
(* The pacemaker keeps sending RetryPending and the clock keeps running:    *)
(* the sweeps are not counted against the length of the run.  One peer, no  *)
(* AddUnidentified (a sweep draws no fresh connection id).                  *)

MaxMsgsRetryLive == 3   \* messages other than RetryPending in a run

UniverseRetryLive == [UniverseRetry EXCEPT !.maxMsgs = MaxMsgsRetryLive]

\* at most one sweep finds work at each time of the clock
UniverseRetrySweeps ==
    [UniverseRetry EXCEPT !.maxMsgs = MaxMsgsRetryLive + MaxTimeRetry + 1]

NextRetryLive ==
    \/ AddPeer(UniverseRetryLive)
    \/ DropPeerRef(UniverseRetryLive)
    \/ Notifications(UniverseRetryLive)
    \/ RetryPending(UniverseRetrySweeps)
    \/ TickRetry

SpecRetryLive ==
    /\ InitRetry /\ [][NextRetryLive]_vars
    /\ WF_vars(TickRetry)
    /\ WF_vars(RetryPending(UniverseRetrySweeps))

RetryKeys == {PeerTokenPair(r, l) : r \in UniverseRetry.R, l \in UniverseRetry.L}

\* K is Pending and its delay ends before the clock of the run does
Waiting(K) ==
    /\ Running
    /\ Has(actor.peers, K)
    /\ actor.peers[K].status = Pending
    /\ actor.peers[K].last_connection_attempt + actor.peers[K].retry_frequency + 1
          <= MaxTimeRetry
\* the sweep just handled has requested connections for K
RetriedNow(K) ==
    /\ msg.op = "RetryPending"
    /\ Has(actor.peers, K)
    /\ actor.peers[K].last_connection_attempt = now
    /\ \E i \in 1..Len(actor.calls) :
          /\ actor.calls[i].op = "request"
          /\ actor.calls[i].remote = K[1] /\ actor.calls[i].local = K[2]
\* K has left the status Pending, or a FatalConnectionError has just
\* restarted its wait
NoLongerWaiting(K) ==
    \/ ~Has(actor.peers, K)
    \/ actor.peers[K].status # Pending
    \/ msg.op = "FatalConnectionError" /\ actor.peers[K].last_connection_attempt = now
\* a request_connection of this step returned an error
TransportError == \E i \in 1..Len(actor'.calls) :
                     actor'.calls[i].op = "request" /\ ~actor'.calls[i].ok

\* C32: while RetryPending keeps arriving and the clock runs, a Pending peer
\* is requested again by a later sweep unless it leaves the status Pending
\* (or a FatalConnectionError restarts its wait); and a step in which
\* request_connection returns an error neither stops the actor nor removes
\* a peer.
C32_PendingRetried ==
    /\ [][TransportError =>
            /\ ~actor'.panicked
            /\ \A K \in DOMAIN actor.peers : Has(actor'.peers, K)]_vars
    /\ \A K \in RetryKeys : Waiting(K) ~> (RetriedNow(K) \/ NoLongerWaiting(K))

\* a peer whose requests all failed has been requested again, in vain, by a
\* second sweep, and is still there
C32_Witness ==
    /\ msg.op = "RetryPending"
    /\ Running
    /\ Len(actor.calls) = 2
    /\ \A i \in 1..Len(actor.calls) : ~actor.calls[i].ok
    /\ \E K \in DOMAIN actor.peers :
          /\ actor.peers[K].status = Pending
          /\ actor.peers[K].retry_frequency = 3
          /\ actor.peers[K].last_connection_attempt = now

\* C33: RemovePeer{K} with a reference count c >= 1: with c > 1 the count
\* becomes c - 1, the peer map is unchanged and no connection is removed;
\* with c = 1 the reference and the peer-map entry of K are removed, and
\* remove_connection(active_endpoint, connection_id) is called if and only
\* if the status of K was not Pending (Pending: reply Ok, no call).
C33_RemovePeer ==
    [][(Handles("RemovePeer") /\ RefCount(actor.refs, msg'.peer_id) >= 1) =>
          LET K == msg'.peer_id
              c == RefCount(actor.refs, K)
          IN IF c > 1
             THEN /\ RefCount(actor'.refs, K) = c - 1
                  /\ actor'.peers = actor.peers
                  /\ actor'.calls = <<>>
             ELSE /\ RefCount(actor'.refs, K) = 0
                  /\ ~Has(actor'.peers, K)
                  /\ \A k \in DOMAIN actor.peers \ {K} :
                        Has(actor'.peers, k) /\ actor'.peers[k] = actor.peers[k]
                  /\ IF Has(actor.peers, K) /\ actor.peers[K].status # Pending
                     THEN actor'.calls = <<RemCall(actor.peers[K].active_endpoint,
                                                   actor.peers[K].connection_id)>>
                     ELSE actor'.calls = <<>>
                  /\ (Has(actor.peers, K) /\ actor.peers[K].status = Pending)
                        => actor'.reply = Ok(Unit)]_vars

\* the last PeerRef of a peer that was not Pending has been dropped: its
\* entry is gone and its connection was removed
C33_Witness ==
    /\ msg.op = "RemovePeer"
    /\ ~Has(actor.peers, msg.peer_id)
    /\ ~Has(actor.refs, msg.peer_id)
    /\ Len(actor.calls) = 1
    /\ actor.calls[1].op = "remove"
    /\ actor.reply = Ok(Unit)

----------------------------------------------------------------------------
(* One remote node with two endpoints, reached under two local tokens and   *)
(* added with one endpoint or with both                                     *)

MaxMsgsReconcile == 4

UniverseReconcile ==
    [R |-> {Trust(1)}, L |-> {Trust(0), Trust(2)}, E |-> {"e1", "e2"}, IE |-> {"in"},
     EL |-> {<<"e2">>, <<"e1", "e2">>}, maxMsgs |-> MaxMsgsReconcile]

NextReconcile ==
    \/ Requests(UniverseReconcile) \/ Notifications(UniverseReconcile)
    \/ RetryPending(UniverseReconcile) \/ Tick

SpecReconcile == Init /\ [][NextReconcile]_vars

\* the gate of the endpoint reconciliation: the one existing endpoint was
\* requested by AddUnidentified and is in the requested list
ReconcileGate(old, new) ==
    /\ Len(old) = 1 /\ Len(new) > 1
    /\ Has(actor.req, old[1])
    /\ Contains(new, old[1])

\* C34: AddPeer for a key K of the peer map replaces K's endpoint list by
\* the requested one only when the existing list has one endpoint, the
\* requested list has more than one, that endpoint is a key of
\* requested_endpoints and the requested list contains it; when the lists
\* have these lengths and the gate fails, the request fails and the
\* reference count of K is what it was; in no other case does AddPeer
\* change the endpoint list of an existing peer.
C34_EndpointReconciliation ==
    [][(Handles("AddPeer") /\ Has(actor.peers, AddedKey)) =>
          LET K == AddedKey
              old == actor.peers[K].endpoints
              new == msg'.endpoints
          IN /\ Has(actor'.peers, K)
             /\ actor'.peers[K].endpoints # old =>
                   ReconcileGate(old, new) /\ actor'.peers[K].endpoints = new
             /\ (Len(old) = 1 /\ Len(new) > 1 /\ ~ReconcileGate(old, new)) =>
                   /\ actor'.reply.kind = "err"
                   /\ RefCount(actor'.refs, K) = RefCount(actor.refs, K)]_vars

----------------------------------------------------------------------------
(* Trailing notifications: the Connection Manager had sent Disconnected for *)
(* a connection before the actor removed it, and the actor reads it later   *)

MaxMsgsTrailing == 4

UniverseTrailing == [Universe EXCEPT !.maxMsgs = MaxMsgsTrailing]

\* connection_id is the current id of no peer and of no unreferenced peer
Superseded(st, connection_id) ==
    /\ ByConnectionId(st.peers, connection_id) = {}
    /\ UnrefByConnectionId(st.unref, connection_id) = {}

\* a Disconnected notification of a connection that is gone
TrailingDisconnected(U) ==
    \E cid \in 1..(nextId - 1), ep \in U.E \cup U.IE, id \in U.R, okEps \in SUBSET U.E :
        /\ Running
        /\ \A c \in conns : c.cid # cid
        /\ Superseded(actor, cid)
        /\ Handled(U, [op |-> "Disconnected", endpoint |-> ep, identity |-> id,
                       connection_id |-> cid],
                   handle_disconnection(actor, ep, id, cid, None, None, okEps), conns)
        /\ UNCHANGED <<prefs, erefs, nextId, now, pair, thread>>

NextTrailing ==
    \/ Requests(UniverseTrailing) \/ Notifications(UniverseTrailing)
    \/ RetryPending(UniverseTrailing) \/ Tick
    \/ TrailingDisconnected(UniverseTrailing)

SpecTrailing == Init /\ [][NextTrailing]_vars

\* C35: a Disconnected notification for a connection id that is no longer
\* the current connection_id of any peer (it may be listed in a record's
\* old_connection_ids) changes no peer's status, removes no entry of the
\* peer map or of the unreferenced table, and broadcasts nothing.
C35_TrailingDisconnectIgnored ==
    [][(Handles("Disconnected") /\ Superseded(actor, msg'.connection_id)) =>
          /\ actor'.peers = actor.peers
          /\ actor'.unref = actor.unref
          /\ actor'.notes = <<>>
          /\ actor'.calls = <<>>]_vars

\* the notification read is for an id that an unreferenced peer lists among
\* its old connection ids, and the peer is still there
C35_Witness ==
    /\ msg.op = "Disconnected"
    /\ \E k \in DOMAIN actor.unref :
          Contains(actor.unref[k].old_connection_ids, msg.connection_id)

----------------------------------------------------------------------------
(* Peers added by endpoint only: AddUnidentified under two local tokens,    *)
(* the connections made, lost and made again, the handles dropped           *)

MaxMsgsUnidentified == 6

UniverseUnidentified == [Universe EXCEPT !.maxMsgs = MaxMsgsUnidentified]

NextUnidentified ==
    \/ AddUnidentified(UniverseUnidentified)
    \/ DropEndpointPeerRef(UniverseUnidentified)
    \/ ConnectedNotification(UniverseUnidentified)
    \/ DisconnectedNotification(UniverseUnidentified)

SpecUnidentified == Init /\ [][NextUnidentified]_vars

\* C36: between two messages no connection_id is the current connection_id
\* of two entries of the peer map and the unreferenced table taken together
\* (so get_peer_id has one answer at most and connection_ids is a bijection).
C36_ConnectionIdUnique ==
    /\ \A k1, k2 \in DOMAIN actor.peers :
          actor.peers[k1].connection_id = actor.peers[k2].connection_id => k1 = k2
    /\ \A u1, u2 \in DOMAIN actor.unref :
          actor.unref[u1].connection_id = actor.unref[u2].connection_id => u1 = u2
    /\ \A k \in DOMAIN actor.peers : \A u \in DOMAIN actor.unref :
          actor.peers[k].connection_id # actor.unref[u].connection_id

\* C37: whenever AddPeer replies with an error, the reference count of the
\* key of the request is after the reply what it was before the request.
C37_FailedAddKeepsRefCount ==
    [][Handles("AddPeer") /\ actor'.reply.kind = "err" =>
          RefCount(actor'.refs, AddedKey) = RefCount(actor.refs, AddedKey)]_vars

\* the key handle_connected stores a promoted peer under: the identity with
\* the local token kept in requested_endpoints for the endpoint
StoredKey == PeerTokenPair(msg'.identity, actor.req[msg'.endpoint].local_authorization)

\* C38: when a Connected notification promotes a requested endpoint to a
\* full peer, the key whose reference count is incremented, (identity,
\* local_identity of the notification), is the key under which the peer is
\* inserted, (identity, local_authorization of requested_endpoints[endpoint]).
C38_PromotedKeyMatches ==
    [][(/\ Handles("Connected")
        /\ ~Has(actor.peers, NotifiedKey)
        /\ Has(actor.req, msg'.endpoint)) =>
          /\ RefCount(actor'.refs, NotifiedKey) = RefCount(actor.refs, NotifiedKey) + 1
          /\ Has(actor'.peers, StoredKey)
          /\ actor'.peers[StoredKey].endpoints = <<msg'.endpoint>>
          /\ StoredKey = NotifiedKey]_vars

\* C39: with strict_ref_counts, when every removal comes from dropping a
\* handle that a successful AddPeer or AddUnidentified returned, each handle
\* dropped once, the actor never aborts on removing an unknown reference.
C39_StrictNeverAborts ==
    actor.strict_ref_counts => ~actor.panicked

----------------------------------------------------------------------------
(* A peer added by endpoint, connected, its handle dropped, and the sweeps  *)
(* of requested_endpoints that follow                                       *)

MaxMsgsRequested == 5

UniverseRequested ==
    [R |-> {Trust(1)}, L |-> {Trust(2)}, E |-> {"e1"}, IE |-> {"in"},
     EL |-> {<<"e1">>}, maxMsgs |-> MaxMsgsRequested]

NextRequested ==
    \/ AddUnidentified(UniverseRequested)
    \/ DropEndpointPeerRef(UniverseRequested)
    \/ ConnectedNotification(UniverseRequested)
    \/ RetryPending(UniverseRequested)
    \/ Tick

SpecRequested == Init /\ [][NextRequested]_vars

RequestedKeys ==
    {PeerTokenPair(r, l) : r \in UniverseRequested.R, l \in UniverseRequested.L}

\* every handle has been dropped and K is out of the peer map, unreferenced
Gone(K) == NoHandles /\ ~Has(actor.peers, K) /\ RefCount(actor.refs, K) = 0

\* K is in the peer map with a positive reference count and no handle
Resurrected(K) == NoHandles /\ Has(actor.peers, K) /\ RefCount(actor.refs, K) > 0

\* the message just handled was the drop of the last handle, which found the
\* peer by its connection id and removed it: K, the one key of this universe
JustRemoved(K) ==
    /\ msg.op = "RemovePeerByEndpoint"
    /\ actor.reply.kind = "ok"
    /\ Gone(K)

\* C40: after the last handle has been dropped and K has been removed from
\* the peer map, a message that is not a new AddPeer or AddUnidentified (a
\* RetryPending sweep, a Connected notification) does not bring K back into
\* the peer map with a positive reference count.
C40_NoResurrection ==
    [][\A K \in RequestedKeys :
          (JustRemoved(K) /\ msg'.op \notin {"AddPeer", "AddUnidentified"})
              => ~Resurrected(K)']_vars

====
